---- MODULE Spec2Model ----
(***************************************************************************)
(* Client-side state synchronisation of the pizza ordering app:            *)
(*   - the cart container (CartContext: reducer, provider operations),     *)
(*   - the remote cart adapter (CartSyncService),                          *)
(*   - the on-device cache (AsyncStorage key 'cart'),                      *)
(*   - the remote profile adapter (UserProfileService.getOrCreateProfile), *)
(*   - the profile and order containers (UserContext, OrderContext),       *)
(*   - the session authority (AuthContext) and the Index screen's effect.  *)
(* Asynchronous operations are tasks; every await on the network or on the *)
(* cache is a separate step, so steps of different tasks interleave.       *)
(***************************************************************************)
EXTENDS Integers, Sequences, FiniteSets, TLC

(* ------------------------------ bounds -------------------------------- *)
MaxOps == 2        \* operations started in one behaviour
MaxTasks == 1      \* asynchronous cart operations in flight at once
MaxAddQty == 1     \* largest quantity of one addItem payload

(* ------------------------- program constants -------------------------- *)
FreeDeliveryThreshold == 1000
FlatDeliveryFee == 150
TaxPercent == 15

Ids == {"A", "B"}
Users == {"u1"}
NoUser == "none"

\* quantities handed to updateQuantity: negative, zero and positive
QtyInputs == (0 - 1) .. MaxAddQty

\* menu screen: price of the selected size of a menu item
UnitPrice(id) == IF id = "A" THEN 500 ELSE 1000

\* menu screen addToCart: the CartItem handed to addItem
CartItem(id, quantity) ==
    [id |-> id, quantity |-> quantity, totalPrice |-> UnitPrice(id) * quantity]

(* ------------------------------ helpers ------------------------------- *)
RECURSIVE SumTotalPrice(_)
SumTotalPrice(items) ==
    IF items = <<>> THEN 0
    ELSE Head(items).totalPrice + SumTotalPrice(Tail(items))

IdsOf(items) == {items[i].id : i \in DOMAIN items}

\* Array.prototype.findIndex: smallest index whose item has the id, 0 if none
FindIndex(items, id) ==
    IF \E i \in DOMAIN items : items[i].id = id
    THEN CHOOSE i \in DOMAIN items :
            /\ items[i].id = id
            /\ \A j \in DOMAIN items : items[j].id = id => i <= j
    ELSE 0

\* Math.round(x / 100) for x >= 0: round half up
RoundDiv100(x) == (x + 50) \div 100

(* ---------------------------- CartContext ----------------------------- *)
initialState ==
    [items |-> <<>>, subtotal |-> 0, deliveryFee |-> 0, tax |-> 0, total |-> 0,
     isLoading |-> FALSE]

calculateTotals_noTax(items) ==
    LET subtotal == SumTotalPrice(items)
        deliveryFee == IF subtotal > FreeDeliveryThreshold THEN 0 ELSE FlatDeliveryFee
        tax == RoundDiv100(subtotal * TaxPercent)
    IN [subtotal |-> subtotal, deliveryFee |-> deliveryFee, tax |-> tax,
        total |-> subtotal + deliveryFee]

calculateTotals(items) ==
    LET subtotal == SumTotalPrice(items)
        deliveryFee == IF subtotal > FreeDeliveryThreshold THEN 0 ELSE FlatDeliveryFee
        tax == RoundDiv100(subtotal * TaxPercent)
    IN [subtotal |-> subtotal, deliveryFee |-> deliveryFee, tax |-> tax,
        total |-> subtotal + deliveryFee + tax]

\* { ...state, items: newItems, ...totals }
WithItems(s, newItems) ==
    LET t == calculateTotals(newItems)
    IN [s EXCEPT !.items = newItems, !.subtotal = t.subtotal,
                 !.deliveryFee = t.deliveryFee, !.tax = t.tax, !.total = t.total]

reduce_ADD_ITEM_replace(s, payload) ==
    LET k == FindIndex(s.items, payload.id)
        newItems == IF k >= 1
                    THEN [i \in DOMAIN s.items |->
                            IF i = k THEN payload ELSE s.items[i]]
                    ELSE Append(s.items, payload)
    IN WithItems(s, newItems)

reduce_ADD_ITEM(s, payload) ==
    LET k == FindIndex(s.items, payload.id)
        newItems == IF k >= 1
                    THEN [i \in DOMAIN s.items |->
                            IF i = k
                            THEN [s.items[i] EXCEPT
                                    !.quantity = s.items[i].quantity + payload.quantity]
                            ELSE s.items[i]]
                    ELSE Append(s.items, payload)
    IN WithItems(s, newItems)

reduce_REMOVE_ITEM(s, id) ==
    WithItems(s, SelectSeq(s.items, LAMBDA it : it.id # id))

reduce_UPDATE_QUANTITY(s, id, quantity) ==
    LET mapped == [i \in DOMAIN s.items |->
                     IF s.items[i].id = id
                     THEN [s.items[i] EXCEPT !.quantity = quantity]
                     ELSE s.items[i]]
    IN WithItems(s, SelectSeq(mapped, LAMBDA it : it.quantity > 0))

reduce_CLEAR_CART_keepItems(s) == [s EXCEPT !.isLoading = FALSE]

reduce_CLEAR_CART(s) == initialState

reduce_LOAD_CART_append(s, payload) == WithItems(s, s.items \o payload)

reduce_LOAD_CART(s, payload) == WithItems(s, payload)

reduce_SET_LOADING(s, b) == [s EXCEPT !.isLoading = b]

(* ----------------------- AsyncStorage key 'cart' ---------------------- *)
\* JSON.stringify of a CartItem[]: the fields in declaration order
JSONstringify(items) ==
    [i \in DOMAIN items |-> <<items[i].id, items[i].quantity, items[i].totalPrice>>]

JSONparse(text) ==
    [i \in DOMAIN text |->
        [id |-> text[i][1], quantity |-> text[i][2], totalPrice |-> text[i][3]]]

NoValue == [present |-> FALSE, text |-> <<>>]
Stored(items) == [present |-> TRUE, text |-> JSONstringify(items)]

\* useEffect on [state.items]: saveCart() when the new array is not empty
saveEffect(c, newItems) ==
    IF Len(newItems) > 0 THEN Stored(newItems) ELSE c


(* -------------------------- CartSyncService --------------------------- *)
NoRow == [exists |-> FALSE, cart_items |-> <<>>, total_amount |-> 0]
Row(cartItems, totalAmount) ==
    [exists |-> TRUE, cart_items |-> cartItems, total_amount |-> totalAmount]

\* getCart: data.cart_items, or [] when the read fails or finds no row
getCart(row, ok) == IF ok /\ row.exists THEN row.cart_items ELSE <<>>

mergeCarts_keepAll(localCart, serverCart) == localCart \o serverCart

\* mergeAndSyncCart, the merge: local items, then server items not in local
mergeCarts(localCart, serverCart) ==
    localCart \o SelectSeq(serverCart, LAMBDA it : it.id \notin IdsOf(localCart))

(* ------------------ payloads pushed to the remote cart ---------------- *)
\* removeItem: state.items.filter(item => item.id !== id)
removeItem_payload(items, id) == SelectSeq(items, LAMBDA it : it.id # id)

\* updateQuantity: state.items.map(item => item.id === id ? {...item, quantity} : item)
updateQuantity_payload(items, id, quantity) ==
    [i \in DOMAIN items |->
        IF items[i].id = id THEN [items[i] EXCEPT !.quantity = quantity]
        ELSE items[i]]

(* ================= UserContext and the address service ================= *)
MaxAddressOps == 2     \* address operations started in one behaviour
MaxAddressTasks == 2   \* address operations in flight at once

DefaultUser == "default-user"
ProfileIds == {"p1"}
Titles == {"home", "work"}
NoPhone == ""
Phones == {"0300"}

\* `address_${Date.now()}_${Math.random()}`: the fixed prefix and a fresh rest
LocalAddressId(n) == [prefix |-> "address_", n |-> n]
\* the uuid the store gives a new row
RemoteAddressId(n) == [prefix |-> "uuid-", n |-> n]
\* id.startsWith('address_')
StartsWithAddress_(id) == id.prefix = "address_"

\* UserAddress of UserContext: { id, title, isDefault } (street, city and zip
\* travel with title)
UserAddress(id, title, isDefault) ==
    [id |-> id, title |-> title, isDefault |-> isDefault]

\* Partial<UserAddress>: the fields a caller of updateAddress passes
Partial(hasTitle, title, hasIsDefault, isDefault) ==
    [hasTitle |-> hasTitle, title |-> title,
     hasIsDefault |-> hasIsDefault, isDefault |-> isDefault]

PartialInputs ==
    {Partial(TRUE, "work", FALSE, FALSE), Partial(FALSE, "home", TRUE, TRUE),
     Partial(FALSE, "home", TRUE, FALSE)}

\* { ...addr, ...partial }
Spread(addr, partial) ==
    [id |-> addr.id,
     title |-> IF partial.hasTitle THEN partial.title ELSE addr.title,
     isDefault |-> IF partial.hasIsDefault THEN partial.isDefault
                   ELSE addr.isDefault]

UserProfile(id, phone, addrs) ==
    [has |-> TRUE, id |-> id, phone |-> phone, addresses |-> addrs]

\* clearUserData and loadUserData: the guest profile
defaultProfile == UserProfile(DefaultUser, NoPhone, <<>>)

\* userReducer, case by case; a null profile leaves the state as it is
userReducer_SET_LOADING(s, payload) == [s EXCEPT !.isLoading = payload]

userReducer_SET_PROFILE(s, payload) ==
    [s EXCEPT !.profile = payload, !.isLoading = FALSE]

userReducer_UPDATE_PROFILE_id(s, id) ==
    IF ~s.profile.has THEN s ELSE [s EXCEPT !.profile.id = id]

userReducer_ADD_ADDRESS(s, payload) ==
    IF ~s.profile.has THEN s
    ELSE [s EXCEPT !.profile.addresses = Append(@, payload)]

userReducer_UPDATE_ADDRESS(s, id, address) ==
    IF ~s.profile.has THEN s
    ELSE LET addrs == s.profile.addresses
         IN [s EXCEPT !.profile.addresses =
                [k \in DOMAIN addrs |->
                    IF addrs[k].id = id THEN Spread(addrs[k], address)
                    ELSE addrs[k]]]

userReducer_DELETE_ADDRESS(s, id) ==
    IF ~s.profile.has THEN s
    ELSE [s EXCEPT !.profile.addresses = SelectSeq(@, LAMBDA a : a.id # id)]

userReducer_SET_DEFAULT_ADDRESS(s, id) ==
    IF ~s.profile.has THEN s
    ELSE LET addrs == s.profile.addresses
         IN [s EXCEPT !.profile.addresses =
                [k \in DOMAIN addrs |->
                    UserAddress(addrs[k].id, addrs[k].title, addrs[k].id = id)]]

\* a row of table user_addresses; `created` orders the rows by created_at
AddressRow(id, userProfileId, title, isDefault, created) ==
    [id |-> id, user_profile_id |-> userProfileId, title |-> title,
     is_default |-> isDefault, created_at |-> created]

\* update({ is_default: false }).eq('user_profile_id', userProfileId)
UnsetDefaults(rows, userProfileId) ==
    {IF r.user_profile_id = userProfileId THEN [r EXCEPT !.is_default = FALSE]
     ELSE r : r \in rows}

SetDefault_all(rows, addressId, userProfileId) ==
    {IF r.user_profile_id = userProfileId
     THEN [r EXCEPT !.is_default = TRUE] ELSE r : r \in rows}

\* update({ is_default: true }).eq('id', addressId).eq('user_profile_id', ...)
SetDefault(rows, addressId, userProfileId) ==
    {IF r.id = addressId /\ r.user_profile_id = userProfileId
     THEN [r EXCEPT !.is_default = TRUE] ELSE r : r \in rows}

\* update({ ...updates }).eq('id', addressId).eq('user_profile_id', ...): a
\* field that is undefined is not sent
UpdateRow(rows, addressId, userProfileId, updates) ==
    {IF r.id = addressId /\ r.user_profile_id = userProfileId
     THEN [r EXCEPT !.title = IF updates.hasTitle THEN updates.title ELSE @,
                    !.is_default = IF updates.hasIsDefault
                                   THEN updates.isDefault ELSE @]
     ELSE r : r \in rows}

\* delete().eq('id', addressId).eq('user_profile_id', userProfileId)
DeleteRow(rows, addressId, userProfileId) ==
    {r \in rows : ~(r.id = addressId /\ r.user_profile_id = userProfileId)}

\* .order('is_default', { ascending: false })
\* .order('created_at', { ascending: false })
Before(r1, r2) ==
    \/ r1.is_default /\ ~r2.is_default
    \/ r1.is_default = r2.is_default /\ r1.created_at > r2.created_at

RECURSIVE Ordered(_)
Ordered(rows) ==
    IF rows = {} THEN <<>>
    ELSE LET first == CHOOSE r \in rows : \A q \in rows \ {r} : Before(r, q)
         IN <<first>> \o Ordered(rows \ {first})

getAddresses_onlyDefault(rows, userProfileId, ok) ==
    IF ok
    THEN Ordered({r \in rows : r.user_profile_id = userProfileId /\ r.is_default})
    ELSE <<>>

\* UserProfileService.getAddresses: the rows of the profile, or [] on error
getAddresses(rows, userProfileId, ok) ==
    IF ok THEN Ordered({r \in rows : r.user_profile_id = userProfileId})
    ELSE <<>>

\* allAddresses.map(addr => ({ id, title, ..., isDefault: addr.is_default }))
ToLocal(fetched) ==
    [k \in DOMAIN fetched |->
        UserAddress(fetched[k].id, fetched[k].title, fetched[k].is_default)]

(* ============================ OrderContext ============================= *)
MaxOrders == 2         \* orders one list holds
MaxOrderOps == 2       \* order operations started in one behaviour
MaxOrderTasks == 1     \* order operations in flight at once

\* the order_status values the reducer sorts on
ActiveStatuses == {"pending", "confirmed", "preparing", "ready", "out_for_delivery"}
HistoryStatuses == {"delivered", "cancelled"}
\* the order_status values the data documentation lists for table orders
DocumentedStatuses == {"pending", "preparing", "delivering", "delivered", "cancelled"}

OrderStatuses == ActiveStatuses \cup HistoryStatuses \cup DocumentedStatuses

OrderIds == {"o1", "o2"}

Order(id, status) == [id |-> id, order_status |-> status]

NoError == "null"
ErrorMessages == {"Failed to load orders", "No user information available"}

\* initialState of the order container
orderInitialState ==
    [orders |-> <<>>, activeOrders |-> <<>>, orderHistory |-> <<>>,
     loading |-> FALSE, error |-> NoError]

\* orders.filter(order => [...].includes(order.order_status))
FilterByStatus(list, statuses) ==
    SelectSeq(list, LAMBDA o : o.order_status \in statuses)

orderReducer_SET_LOADING(s, payload) == [s EXCEPT !.loading = payload]

orderReducer_SET_ORDERS(s, payload) ==
    [s EXCEPT !.orders = payload,
              !.activeOrders = FilterByStatus(payload, ActiveStatuses),
              !.orderHistory = FilterByStatus(payload, HistoryStatuses),
              !.loading = FALSE,
              !.error = NoError]

orderReducer_ADD_ORDER(s, payload) ==
    LET newOrders == <<payload>> \o s.orders
    IN [s EXCEPT !.orders = newOrders,
                 !.activeOrders = FilterByStatus(newOrders, ActiveStatuses),
                 !.orderHistory = FilterByStatus(newOrders, HistoryStatuses)]

orderReducer_UPDATE_ORDER(s, payload) ==
    LET updatedOrders ==
            [k \in DOMAIN s.orders |->
                IF s.orders[k].id = payload.id THEN payload ELSE s.orders[k]]
    IN [s EXCEPT !.orders = updatedOrders,
                 !.activeOrders = FilterByStatus(updatedOrders, ActiveStatuses),
                 !.orderHistory = FilterByStatus(updatedOrders, HistoryStatuses)]

orderReducer_SET_ERROR_keepLoading(s, payload) == [s EXCEPT !.error = payload]

orderReducer_SET_ERROR(s, payload) ==
    [s EXCEPT !.error = payload, !.loading = FALSE]

orderReducer_CLEAR_ORDERS(s) ==
    [s EXCEPT !.orders = <<>>, !.activeOrders = <<>>, !.orderHistory = <<>>,
              !.error = NoError]

\* JSON.stringify(orders) and back
OrdersJSON(list) == [k \in DOMAIN list |-> <<list[k].id, list[k].order_status>>]
OrdersParse(text) == [k \in DOMAIN text |-> Order(text[k][1], text[k][2])]
StoredOrders(list) == [present |-> TRUE, text |-> OrdersJSON(list)]

(* ------------------------------- state -------------------------------- *)
VARIABLES
    state,      \* CartProvider: useReducer(cartReducer, initialState)
    user,       \* the session's user, what supabase.auth.getUser() reads
    remote,     \* table user_cart_sessions: one row per user, or none
    cache,      \* AsyncStorage key 'cart'
    tasks,      \* asynchronous operations in flight, each at an await
    nops,       \* operations started so far
    last,       \* history: the step just taken
    profiles,   \* table user_profiles
    prefs,      \* table user_preferences: the user ids that have a row
    calls,      \* getOrCreateProfile calls in flight, each at an await
    ncalls,     \* getOrCreateProfile calls started so far
    plast,      \* history: the getOrCreateProfile call that returned last
    ustate,     \* UserProvider: useReducer(userReducer, initialState)
    ucache,     \* AsyncStorage keys 'userId', 'userProfile', 'userPhone'
    addresses,  \* table user_addresses
    atasks,     \* address operations and saves in flight, each at an await
    anops,      \* address operations started so far
    alast,      \* history: the address step just taken
    ostate,     \* OrderProvider: useReducer(orderReducer, initialState)
    ocache,     \* AsyncStorage key 'userOrders'
    orders,     \* table orders: the rows of the user, newest first
    otasks,     \* order operations in flight, each at an await
    onops,      \* order operations started so far
    olast,      \* history: the order step just taken
    authState,  \* AuthProvider: useState<AuthState>
    authTasks,  \* calls on the session service in flight, each at an await
    authOps,    \* operations of the AuthProvider started so far
    authLast    \* history: the step of the AuthProvider just taken

cvars == <<state, user, remote, cache, tasks, nops, last>>
pvars == <<profiles, prefs, calls, ncalls, plast>>
avars == <<ustate, ucache, addresses, atasks, anops, alast>>
ovars == <<ostate, ocache, orders, otasks, onops, olast>>
hvars == <<authState, authTasks, authOps, authLast>>
vars == <<state, user, remote, cache, tasks, nops, last,
          profiles, prefs, calls, ncalls, plast,
          ustate, ucache, addresses, atasks, anops, alast,
          ostate, ocache, orders, otasks, onops, olast,
          authState, authTasks, authOps, authLast>>

\* carts a remote row may hold at start-up: written in an earlier session
InitRows ==
    {NoRow,
     Row(<<CartItem("A", 2), CartItem("B", 1)>>,
         calculateTotals(<<CartItem("A", 2), CartItem("B", 1)>>).total)}

\* what the cache may hold at start-up: saved in an earlier session
InitCache ==
    {NoValue, Stored(<<CartItem("A", 1)>>),
     Stored(<<CartItem("A", 1), CartItem("B", 1)>>)}

NewTask(op, pc, id, q, uid, pre, clean) ==
    [op |-> op, pc |-> pc, id |-> id, q |-> q, uid |-> uid, pre |-> pre,
     cart |-> <<>>, total |-> 0, ins |-> FALSE, readOk |-> TRUE,
     server |-> <<>>, clean |-> clean]

\* another operation starts: the tasks in flight no longer run alone
Dirty(ts) == [i \in DOMAIN ts |-> [ts[i] EXCEPT !.clean = FALSE]]

Without(ts, i) == SubSeq(ts, 1, i - 1) \o SubSeq(ts, i + 1, Len(ts))

Step(t, step, fin, issued, wrote) ==
    [t |-> t, step |-> step, fin |-> fin, issued |-> issued, wrote |-> wrote]

\* the mount effect of CartProvider: loadCart() is in flight after construction
MountTask == NewTask("loadCart", "getUser", "A", 0, NoUser,
                     reduce_SET_LOADING(initialState, TRUE), TRUE)

NoCall ==
    [uid |-> NoUser, email |-> [local |-> "", domain |-> ""], result |-> 0,
     created |-> FALSE, failed |-> FALSE, alone |-> FALSE,
     pre |-> {}, post |-> {}, clean |-> TRUE,
     prev |-> [has |-> FALSE, uid |-> NoUser,
               email |-> [local |-> "", domain |-> ""], result |-> 0]]

\* the profile store is not touched by the cart
ProfilesIdle ==
    /\ profiles = {}
    /\ prefs = {}
    /\ calls = <<>>
    /\ ncalls = 0
    /\ plast = NoCall

\* no address operation has run: the guest profile, nothing cached
NoAddressStep ==
    [step |-> "none", op |-> "none", fin |-> FALSE, rejected |-> FALSE,
     svc |-> FALSE, clean |-> TRUE,
     t |-> [op |-> "none", pc |-> "none", id |-> LocalAddressId(0),
            arg |-> Partial(FALSE, "home", FALSE, FALSE), n |-> 0,
            profile |-> defaultProfile, alone |-> FALSE, auth |-> FALSE,
            unsetFailed |-> FALSE, writeFailed |-> FALSE, readFailed |-> FALSE,
            pre |-> {}, preLocal |-> <<>>]]

AddressesIdle ==
    /\ ustate = [profile |-> defaultProfile, isLoading |-> FALSE]
    /\ ucache = [userId |-> NoUser, userProfile |-> NoValue, userPhone |-> NoPhone]
    /\ addresses = {}
    /\ atasks = <<>>
    /\ anops = 0
    /\ alast = NoAddressStep

\* AuthProvider, the initial state: nobody yet, loading
authInitialState ==
    [user |-> NoUser, session |-> NoUser, loading |-> TRUE,
     isAuthenticated |-> FALSE, uid |-> NoUser]

AuthTask(op, pc, u) == [op |-> op, pc |-> pc, u |-> u, read |-> NoUser]

NoAuthStep ==
    [op |-> "none", outcome |-> "none", error |-> FALSE,
     notified |-> FALSE, session |-> NoUser]

\* the session authority plays no part
AuthIdle ==
    /\ authState = authInitialState
    /\ authTasks = <<>>
    /\ authOps = 0
    /\ authLast = NoAuthStep

OrderTask(op, pc, uid, order, alone) ==
    [op |-> op, pc |-> pc, uid |-> uid, order |-> order, alone |-> alone,
     load |-> FALSE, fetchFailed |-> FALSE, snapshot |-> NoValue]

NoOrderStep ==
    [step |-> "none", fin |-> FALSE,
     t |-> OrderTask("none", "none", NoUser, Order("o1", "pending"), FALSE)]

OrdersIdle ==
    /\ ostate = orderInitialState
    /\ ocache = NoValue
    /\ orders = <<>>
    /\ otasks = <<>>
    /\ onops = 0
    /\ olast = NoOrderStep

Init ==
    /\ ProfilesIdle
    /\ AuthIdle
    /\ AddressesIdle
    /\ OrdersIdle
    /\ state = reduce_SET_LOADING(initialState, TRUE)
    /\ user \in {NoUser} \cup Users
    /\ remote \in [Users -> InitRows]
    /\ cache \in InitCache
    /\ tasks = <<MountTask>>
    /\ nops = 0
    /\ last = Step(MountTask, "call", FALSE, FALSE, FALSE)

CanStart == nops < MaxOps /\ Len(tasks) < MaxTasks

(* --------------------- operations of the provider --------------------- *)
\* addItem: dispatch ADD_ITEM; nothing else
AddItem(id, quantity) ==
    /\ nops < MaxOps
    /\ state' = reduce_ADD_ITEM(state, CartItem(id, quantity))
    /\ cache' = saveEffect(cache, state'.items)
    /\ tasks' = Dirty(tasks)
    /\ nops' = nops + 1
    /\ last' = Step(NewTask("addItem", "done", id, quantity, NoUser, state,
                            tasks = <<>>), "call", TRUE, FALSE, FALSE)
    /\ UNCHANGED <<user, remote>>
    /\ UNCHANGED <<pvars, avars, ovars, hvars>>

\* removeItem: dispatch REMOVE_ITEM, then await getUser()
RemoveItemCall(id) ==
    /\ CanStart
    /\ state' = reduce_REMOVE_ITEM(state, id)
    /\ cache' = saveEffect(cache, state'.items)
    /\ LET t == NewTask("removeItem", "getUser", id, 0, NoUser, state, tasks = <<>>)
       IN /\ tasks' = Append(Dirty(tasks), t)
          /\ last' = Step(t, "call", FALSE, FALSE, FALSE)
    /\ nops' = nops + 1
    /\ UNCHANGED <<user, remote>>
    /\ UNCHANGED <<pvars, avars, ovars, hvars>>

\* updateQuantity: dispatch UPDATE_QUANTITY, then await getUser()
UpdateQuantityCall(id, quantity) ==
    /\ CanStart
    /\ state' = reduce_UPDATE_QUANTITY(state, id, quantity)
    /\ cache' = saveEffect(cache, state'.items)
    /\ LET t == NewTask("updateQuantity", "getUser", id, quantity, NoUser, state,
                        tasks = <<>>)
       IN /\ tasks' = Append(Dirty(tasks), t)
          /\ last' = Step(t, "call", FALSE, FALSE, FALSE)
    /\ nops' = nops + 1
    /\ UNCHANGED <<user, remote>>
    /\ UNCHANGED <<pvars, avars, ovars, hvars>>

\* clearCart: dispatch CLEAR_CART, AsyncStorage.removeItem('cart'), await getUser()
ClearCartCall ==
    /\ CanStart
    /\ state' = reduce_CLEAR_CART(state)
    /\ cache' = NoValue
    /\ LET t == NewTask("clearCart", "getUser", "A", 0, NoUser, state, tasks = <<>>)
       IN /\ tasks' = Append(Dirty(tasks), t)
          /\ last' = Step(t, "call", FALSE, FALSE, FALSE)
    /\ nops' = nops + 1
    /\ UNCHANGED <<user, remote>>
    /\ UNCHANGED <<pvars, avars, ovars, hvars>>

\* loadCartFromServer(uid): SET_LOADING, capture state.items, await the merge
LoadCartFromServerCall ==
    /\ CanStart
    /\ user # NoUser
    /\ state' = reduce_SET_LOADING(state, TRUE)
    /\ LET t == NewTask("loadCartFromServer", "getCart", "A", 0, user, state,
                        tasks = <<>>)
       IN /\ tasks' = Append(Dirty(tasks), t)
          /\ last' = Step(t, "call", FALSE, FALSE, FALSE)
    /\ nops' = nops + 1
    /\ UNCHANGED <<user, remote, cache>>
    /\ UNCHANGED <<pvars, avars, ovars, hvars>>

\* the app is closed and started again: a new provider, whose mount effect
\* calls loadCart(); what was in flight is gone
Restart ==
    /\ nops < MaxOps
    /\ state' = reduce_SET_LOADING(initialState, TRUE)
    /\ tasks' = <<MountTask>>
    /\ last' = Step(MountTask, "call", FALSE, FALSE, FALSE)
    /\ nops' = nops + 1
    /\ UNCHANGED <<user, remote, cache>>
    /\ UNCHANGED <<pvars, avars, ovars, hvars>>

\* the session authority: sign-in and sign-out
SignIn(u) ==
    /\ nops < MaxOps
    /\ user = NoUser
    /\ user' = u
    /\ tasks' = Dirty(tasks)
    /\ nops' = nops + 1
    /\ last' = Step(NewTask("signIn", "done", "A", 0, u, state, tasks = <<>>),
                    "call", TRUE, FALSE, FALSE)
    /\ UNCHANGED <<state, remote, cache>>
    /\ UNCHANGED <<pvars, avars, ovars, hvars>>

SignOut ==
    /\ nops < MaxOps
    /\ user # NoUser
    /\ user' = NoUser
    /\ tasks' = Dirty(tasks)
    /\ nops' = nops + 1
    /\ last' = Step(NewTask("signOut", "done", "A", 0, NoUser, state, tasks = <<>>),
                    "call", TRUE, FALSE, FALSE)
    /\ UNCHANGED <<state, remote, cache>>
    /\ UNCHANGED <<pvars, avars, ovars, hvars>>


(* ---------------------- steps of the tasks in flight ------------------ *)
\* await supabase.auth.getUser() returns the session's user, or none
GetUserResolves(i) ==
    /\ i \in DOMAIN tasks
    /\ tasks[i].pc = "getUser"
    /\  LET t == tasks[i]
            u == user
            cartItems ==
                IF t.op = "removeItem" THEN removeItem_payload(t.pre.items, t.id)
                ELSE IF t.op = "updateQuantity"
                     THEN updateQuantity_payload(t.pre.items, t.id, t.q)
                     ELSE <<>>
            totalAmount == IF t.op = "clearCart" THEN 0
                           ELSE calculateTotals(cartItems).total
            t2 == IF t.op = "loadCart"
                  THEN [t EXCEPT !.uid = u,
                                 !.pc = IF u # NoUser THEN "getCart" ELSE "getItem"]
                  ELSE [t EXCEPT !.uid = u, !.cart = cartItems,
                                 !.total = totalAmount,
                                 !.pc = IF u # NoUser THEN "select" ELSE "done"]
        IN /\ tasks' = IF t2.pc = "done" THEN Without(tasks, i)
                       ELSE [tasks EXCEPT ![i] = t2]
           /\ last' = Step(t2, "getUser", t2.pc = "done", FALSE, FALSE)
    /\ UNCHANGED <<state, user, remote, cache, nops>>
    /\ UNCHANGED <<pvars, avars, ovars, hvars>>

\* CartSyncService.getCart returns.  loadCartFromServer goes on with the merge
\* and calls syncCart; loadCart destructures { cart } from the array it gets,
\* finds nothing, and falls back to the cache
GetCartResolves(i) ==
    /\ i \in DOMAIN tasks
    /\ tasks[i].pc = "getCart"
    /\ \E ok \in BOOLEAN :
        LET t == tasks[i]
            serverCart == getCart(remote[t.uid], ok)
            mergedCart == mergeCarts(t.pre.items, serverCart)
            t2 == IF t.op = "loadCart"
                  THEN [t EXCEPT !.pc = "getItem", !.readOk = ok]
                  ELSE [t EXCEPT !.pc = "select", !.readOk = ok,
                                 !.server = serverCart, !.cart = mergedCart,
                                 !.total = SumTotalPrice(mergedCart)]
        IN /\ tasks' = [tasks EXCEPT ![i] = t2]
           /\ last' = Step(t2, "getCart", FALSE, FALSE, FALSE)
    /\ UNCHANGED <<state, user, remote, cache, nops>>
    /\ UNCHANGED <<pvars, avars, ovars, hvars>>

\* loadCart: AsyncStorage.getItem('cart') returns; LOAD_CART when a value is
\* stored; finally SET_LOADING false
GetItemResolves(i) ==
    /\ i \in DOMAIN tasks
    /\ tasks[i].pc = "getItem"
    /\ LET t == tasks[i]
           loaded == IF cache.present
                     THEN reduce_LOAD_CART(state, JSONparse(cache.text))
                     ELSE state
       IN /\ state' = reduce_SET_LOADING(loaded, FALSE)
          /\ cache' = IF cache.present THEN saveEffect(cache, loaded.items) ELSE cache
          /\ tasks' = Without(tasks, i)
          /\ last' = Step([t EXCEPT !.pc = "done"], "getItem", TRUE, FALSE, FALSE)
    /\ UNCHANGED <<user, remote, nops>>
    /\ UNCHANGED <<pvars, avars, ovars, hvars>>

\* syncCart: the select of the existing row returns; the update or the insert
\* is issued
SelectResolves(i) ==
    /\ i \in DOMAIN tasks
    /\ tasks[i].pc = "select"
    /\  LET t == tasks[i]
            existingCart == remote[t.uid].exists
            t2 == [t EXCEPT !.pc = "write", !.ins = ~existingCart]
        IN /\ tasks' = [tasks EXCEPT ![i] = t2]
           /\ last' = Step(t2, "select", FALSE, TRUE, FALSE)
    /\ UNCHANGED <<state, user, remote, cache, nops>>
    /\ UNCHANGED <<pvars, avars, ovars, hvars>>

\* syncCart: the update or insert returns.  The store keeps one cart per
\* identity: an insert for a user who has a row is rejected, an update for a
\* user without a row changes nothing.  loadCartFromServer then dispatches
\* LOAD_CART with the merged cart and stores it under 'cart'
WriteResolves(i) ==
    /\ i \in DOMAIN tasks
    /\ tasks[i].pc = "write"
    /\ \E ok \in BOOLEAN :
        LET t == tasks[i]
            done == ok /\ (t.ins <=> ~remote[t.uid].exists)
            merging == t.op = "loadCartFromServer"
            loaded == IF merging THEN reduce_LOAD_CART(state, t.cart) ELSE state
        IN /\ remote' = IF done
                        THEN [remote EXCEPT ![t.uid] = Row(t.cart, t.total)]
                        ELSE remote
           /\ state' = IF merging THEN reduce_SET_LOADING(loaded, FALSE) ELSE state
           /\ cache' = IF merging THEN Stored(t.cart) ELSE cache
           /\ tasks' = Without(tasks, i)
           /\ last' = Step([t EXCEPT !.pc = "done"], "write", TRUE, FALSE, done)
    /\ UNCHANGED <<user, nops>>
    /\ UNCHANGED <<pvars, avars, ovars, hvars>>

Next ==
    \/ \E id \in Ids, quantity \in 1 .. MaxAddQty : AddItem(id, quantity)
    \/ \E id \in Ids : RemoveItemCall(id)
    \/ \E id \in Ids, quantity \in QtyInputs : UpdateQuantityCall(id, quantity)
    \/ ClearCartCall
    \/ LoadCartFromServerCall
    \/ Restart
    \/ \E u \in Users : SignIn(u)
    \/ SignOut
    \/ \E i \in 1 .. MaxTasks : GetUserResolves(i)
    \/ \E i \in 1 .. MaxTasks : GetCartResolves(i)
    \/ \E i \in 1 .. MaxTasks : GetItemResolves(i)
    \/ \E i \in 1 .. MaxTasks : SelectResolves(i)
    \/ \E i \in 1 .. MaxTasks : WriteResolves(i)

Spec == Init /\ [][Next]_vars


(* ====================== properties of the cart ======================== *)
\* what the spec calls the derived totals of an item sequence
RECURSIVE SpecSubtotal(_, _)
SpecSubtotal(items, n) ==
    IF n = 0 THEN 0 ELSE SpecSubtotal(items, n - 1) + items[n].totalPrice

SpecTotals(items) ==
    LET sub == SpecSubtotal(items, Len(items))
        fee == IF sub > 1000 THEN 0 ELSE 150
        \* round(0.15 * sub): the nearest integer, halves upwards
        tx == CHOOSE r \in 0 .. sub : 100 * r - 50 <= 15 * sub /\ 15 * sub < 100 * r + 50
    IN [subtotal |-> sub, deliveryFee |-> fee, tax |-> tx, total |-> sub + fee + tx]

\* the items of `items` without those whose id is `id`, order kept
RECURSIVE SpecWithout(_, _)
SpecWithout(items, id) ==
    IF items = <<>> THEN <<>>
    ELSE IF Head(items).id = id THEN SpecWithout(Tail(items), id)
         ELSE <<Head(items)>> \o SpecWithout(Tail(items), id)

\* the items of `serverCart` whose id does not occur in `localCart`, order kept
RECURSIVE SpecRemoteOnly(_, _)
SpecRemoteOnly(serverCart, localCart) ==
    IF serverCart = <<>> THEN <<>>
    ELSE IF \E i \in DOMAIN localCart : localCart[i].id = Head(serverCart).id
         THEN SpecRemoteOnly(Tail(serverCart), localCart)
         ELSE <<Head(serverCart)>> \o SpecRemoteOnly(Tail(serverCart), localCart)

LastCall(op) == last.step = "call" /\ last.t.op = op
\* the operation `op` has just completed, having run with no other operation
\* started between its call and its completion
LastDoneAlone(op) == last.fin /\ last.t.op = op /\ last.t.clean

\* C1: after any sequence of addItem, removeItem and updateQuantity the stored
\* total is subtotal + deliveryFee + tax, and the stored subtotal is the sum
\* of totalPrice over the items in the cart.
C1_TotalIsSumOfParts ==
    /\ state.total = state.subtotal + state.deliveryFee + state.tax
    /\ state.subtotal = SpecSubtotal(state.items, Len(state.items))

C1_Witness ==
    /\ LastCall("updateQuantity")
    /\ Len(state.items) = 2
    /\ state.tax > 0
    /\ state.items # last.t.pre.items

\* C2: in every reachable state, the initial one and the one after clear
\* included, subtotal, deliveryFee, tax and total are the values the totals
\* function gives for the current items.
C2_TotalsAreFunctionOfItems ==
    LET t == SpecTotals(state.items)
    IN /\ state.subtotal = t.subtotal
       /\ state.deliveryFee = t.deliveryFee
       /\ state.tax = t.tax
       /\ state.total = t.total

\* C3: updateQuantity(id, 0) on an id in the cart removes that item and leaves
\* the others as they are, in order; updateQuantity(id, q) on an id not in the
\* cart leaves the items and all totals unchanged.
C3_UpdateQuantityZeroOrAbsent ==
    LastCall("updateQuantity") =>
        LET pre == last.t.pre
            present == \E i \in DOMAIN pre.items : pre.items[i].id = last.t.id
        IN /\ (present /\ last.t.q = 0) =>
                state.items = SpecWithout(pre.items, last.t.id)
           /\ ~present =>
                /\ state.items = pre.items
                /\ state.subtotal = pre.subtotal
                /\ state.deliveryFee = pre.deliveryFee
                /\ state.tax = pre.tax
                /\ state.total = pre.total

\* C4: every item of the local cart has quantity >= 1, whatever sequence of
\* addItem (quantity >= 1), updateQuantity, removeItem, clear, loadCart and
\* loadCartFromServer led to the state.
C4_QuantityAtLeastOne ==
    \A i \in DOMAIN state.items : state.items[i].quantity >= 1

C6_FetchedMerge ==
    /\ last.step = "getCart"
    /\ last.t.op = "loadCartFromServer"
    /\ last.t.readOk

\* C6: mergeAndSync returns the local items in their order, followed by the
\* remote items whose id is not in the local cart, in remote order; on an id
\* held by both the local item is kept; identical carts give that cart.
\* (The remote cart is the one the fetch returned.)
C6_MergeResult ==
    C6_FetchedMerge =>
        LET localCart == last.t.pre.items
            remoteCart == remote[last.t.uid].cart_items
            result == last.t.cart
        IN /\ result = localCart \o SpecRemoteOnly(remoteCart, localCart)
           /\ \A i \in DOMAIN localCart : result[i] = localCart[i]
           /\ localCart = remoteCart => result = localCart

C6_Witness ==
    /\ C6_FetchedMerge
    /\ LET localCart == last.t.pre.items
           remoteCart == remote[last.t.uid].cart_items
       IN /\ \E i \in DOMAIN localCart, j \in DOMAIN remoteCart :
                /\ localCart[i].id = remoteCart[j].id
                /\ localCart[i].quantity # remoteCart[j].quantity
          /\ \E j \in DOMAIN remoteCart :
                \A i \in DOMAIN localCart : localCart[i].id # remoteCart[j].id
          /\ Len(last.t.cart) = 2

\* C7: when loadCartFromServer runs to completion alone and every remote call
\* succeeds, the local items, the remote items and the cached snapshot all
\* equal the merged cart.
C7_LoadCartFromServer ==
    (LastDoneAlone("loadCartFromServer") /\ last.t.readOk /\ last.wrote) =>
        LET merged == last.t.pre.items
                        \o SpecRemoteOnly(last.t.server, last.t.pre.items)
        IN /\ state.items = merged
           /\ remote[last.t.uid].cart_items = merged
           /\ cache.present
           /\ Len(cache.text) = Len(merged)
           /\ \A i \in DOMAIN merged :
                cache.text[i] = <<merged[i].id, merged[i].quantity, merged[i].totalPrice>>

C7_Witness ==
    /\ LastDoneAlone("loadCartFromServer")
    /\ last.t.readOk
    /\ last.wrote
    /\ Len(last.t.pre.items) = 1
    /\ Len(state.items) = 2

\* C8: with an identity present and the remote write succeeding, after
\* removeItem(id) or updateQuantity(id, q) has completed alone the remote
\* cart's items equal the local cart's items.
C8_RemoteEqualsLocal ==
    ((LastDoneAlone("removeItem") \/ LastDoneAlone("updateQuantity"))
        /\ last.t.uid # NoUser /\ last.wrote) =>
        remote[last.t.uid].cart_items = state.items

\* C9: after clearCart the local cart has no items; with an identity and a
\* successful remote write the remote cart has no items; without an identity
\* no remote write is issued.
C9_ClearCart ==
    [][(last'.t.op = "clearCart") =>
        /\ last'.step = "call" => state'.items = <<>>
        /\ (last'.fin /\ last'.t.clean) => state'.items = <<>>
        /\ last'.wrote => remote'[last'.t.uid].cart_items = <<>>
        /\ (last'.step = "getUser" /\ user = NoUser) =>
                /\ remote' = remote
                /\ Len(tasks') = Len(tasks) - 1
                /\ ~last'.issued
      ]_vars

C9_Witness ==
    /\ LastDoneAlone("clearCart")
    /\ last.wrote
    /\ last.t.pre.items # <<>>
    /\ state.items = <<>>
    /\ remote[last.t.uid].cart_items = <<>>


(* ================= UserProfileService.getOrCreateProfile =============== *)
MaxCalls == 2      \* getOrCreateProfile calls started in one behaviour
MaxProfileCalls == 2   \* getOrCreateProfile calls in flight at once

Emails == {[local |-> "ann", domain |-> "mail.pk"],
           [local |-> "bob", domain |-> "mail.pk"]}
AnnEmail == [local |-> "ann", domain |-> "mail.pk"]
BobEmail == [local |-> "bob", domain |-> "mail.pk"]

LocalPart_domain(email) == email.domain

\* email.split('@')[0]
LocalPart(email) == email.local

ProfileRow(id, userId, email) ==
    [id |-> id, user_id |-> userId, email |-> email, name |-> LocalPart(email)]

\* the id the store gives a new row: one never used before
NewProfileId == Cardinality(profiles) + 1

Single_noData(rows, ok) ==
    [data |-> FALSE, id |-> 0, failure |-> ~ok \/ Cardinality(rows) > 1]

\* .single(): the row when exactly one matches; otherwise no data and an
\* error (no row; several rows; or the request failed)
Single(rows, ok) ==
    IF ok /\ Cardinality(rows) = 1
    THEN [data |-> TRUE, id |-> (CHOOSE r \in rows : TRUE).id, failure |-> FALSE]
    ELSE [data |-> FALSE, id |-> 0, failure |-> ~ok \/ Cardinality(rows) > 1]

\* profile tables the store may hold at start-up: none; a profile made at a
\* guest checkout; the user's own; another user's with the other email
InitProfiles ==
    {{}, {ProfileRow(1, NoUser, AnnEmail)}, {ProfileRow(1, "u1", AnnEmail)},
     {ProfileRow(1, "u0", BobEmail)}}

CartIdle ==
    /\ state = initialState
    /\ user = NoUser
    /\ remote = [u \in Users |-> NoRow]
    /\ cache = NoValue
    /\ tasks = <<>>
    /\ nops = 0
    /\ last = Step(MountTask, "call", FALSE, FALSE, FALSE)

InitProfile ==
    /\ CartIdle
    /\ AuthIdle
    /\ AddressesIdle
    /\ OrdersIdle
    /\ profiles \in InitProfiles
    /\ prefs = {}
    /\ calls = <<>>
    /\ ncalls = 0
    /\ plast = NoCall

StillAlone(cs) == [i \in DOMAIN cs |-> [cs[i] EXCEPT !.alone = FALSE]]

\* the call returns `result` (0 for null) to its caller; the history keeps
\* the table the call started from, the table it leaves and whether any
\* call so far met a failure
Return(i, c, result) ==
    /\ calls' = Without(calls, i)
    /\ plast' = [uid |-> c.uid, email |-> c.email, result |-> result,
                 created |-> c.created, failed |-> c.failed, alone |-> c.alone,
                 pre |-> c.pre, post |-> profiles',
                 clean |-> plast.clean /\ ~c.failed,
                 prev |-> c.prev]

\* getOrCreateProfile(userId, email): the select by user_id is issued
GetOrCreateProfileCall(userId, email) ==
    /\ ncalls < MaxCalls
    /\ Len(calls) < MaxProfileCalls
    /\ calls' = Append(StillAlone(calls),
                       [uid |-> userId, email |-> email, pc |-> "byUserId",
                        found |-> 0, created |-> FALSE, failed |-> FALSE,
                        alone |-> calls = <<>>, pre |-> profiles,
                        prev |-> IF calls = <<>> /\ plast.uid # NoUser
                                 THEN [has |-> TRUE, uid |-> plast.uid,
                                       email |-> plast.email,
                                       result |-> plast.result]
                                 ELSE NoCall.prev])
    /\ ncalls' = ncalls + 1
    /\ UNCHANGED <<profiles, prefs, plast>>
    /\ UNCHANGED <<cvars, avars, ovars, hvars>>

\* the select by user_id returns: an existing profile is returned as it is
ByUserIdResolves(i) ==
    /\ i \in DOMAIN calls
    /\ calls[i].pc = "byUserId"
    /\ UNCHANGED <<profiles, prefs, ncalls>>
    /\ \E ok \in BOOLEAN :
        LET c == calls[i]
            existingProfile ==
                Single({r \in profiles : r.user_id = c.uid}, ok)
            c2 == [c EXCEPT !.failed = c.failed \/ existingProfile.failure,
                            !.pc = "byEmail"]
        IN IF existingProfile.data
           THEN Return(i, c2, existingProfile.id)
           ELSE calls' = [calls EXCEPT ![i] = c2] /\ plast' = plast
    /\ UNCHANGED <<cvars, avars, ovars, hvars>>

\* the select by email returns: a profile found is given the user_id, none
\* found leads to the insert
ByEmailResolves(i) ==
    /\ i \in DOMAIN calls
    /\ calls[i].pc = "byEmail"
    /\ \E ok \in BOOLEAN :
        LET c == calls[i]
            profileByEmail == Single({r \in profiles : r.email = c.email}, ok)
        IN calls' = [calls EXCEPT ![i] =
                        [c EXCEPT !.failed = c.failed \/ profileByEmail.failure,
                                  !.found = profileByEmail.id,
                                  !.pc = IF profileByEmail.data THEN "update"
                                         ELSE "insert"]]
    /\ UNCHANGED <<profiles, prefs, ncalls, plast>>
    /\ UNCHANGED <<cvars, avars, ovars, hvars>>

\* update({ user_id }).eq('id', profileByEmail.id) returns
UpdateUserIdResolves(i) ==
    /\ i \in DOMAIN calls
    /\ calls[i].pc = "update"
    /\ \E ok \in BOOLEAN :
        LET c == calls[i]
        IN IF ok
           THEN /\ profiles' = {IF r.id = c.found THEN [r EXCEPT !.user_id = c.uid]
                                ELSE r : r \in profiles}
                /\ Return(i, c, c.found)
           ELSE /\ profiles' = profiles
                /\ Return(i, [c EXCEPT !.failed = TRUE], 0)
    /\ UNCHANGED <<prefs, ncalls>>
    /\ UNCHANGED <<cvars, avars, ovars, hvars>>

\* insert({ user_id, email, name }) returns; on success the preferences follow
InsertResolves(i) ==
    /\ i \in DOMAIN calls
    /\ calls[i].pc = "insert"
    /\ \E ok \in BOOLEAN :
        LET c == calls[i]
        IN IF ok
           THEN /\ profiles' = profiles \cup {ProfileRow(NewProfileId, c.uid, c.email)}
                /\ calls' = [calls EXCEPT ![i] =
                                [c EXCEPT !.found = NewProfileId, !.created = TRUE,
                                          !.pc = "prefsSelect"]]
                /\ plast' = plast
           ELSE /\ profiles' = profiles
                /\ Return(i, [c EXCEPT !.failed = TRUE], 0)
    /\ UNCHANGED <<prefs, ncalls>>
    /\ UNCHANGED <<cvars, avars, ovars, hvars>>

\* getOrCreatePreferences: the select by user_id returns
PrefsSelectResolves(i) ==
    /\ i \in DOMAIN calls
    /\ calls[i].pc = "prefsSelect"
    /\ UNCHANGED <<profiles, prefs, ncalls>>
    /\ \E ok \in BOOLEAN :
        LET c == calls[i]
            c2 == [c EXCEPT !.failed = c.failed \/ ~ok, !.pc = "prefsInsert"]
        IN IF ok /\ c.uid \in prefs
           THEN Return(i, c2, c.found)
           ELSE calls' = [calls EXCEPT ![i] = c2] /\ plast' = plast
    /\ UNCHANGED <<cvars, avars, ovars, hvars>>

\* getOrCreatePreferences: the insert returns; the new profile is returned
PrefsInsertResolves(i) ==
    /\ i \in DOMAIN calls
    /\ calls[i].pc = "prefsInsert"
    /\ UNCHANGED <<profiles, ncalls>>
    /\ \E ok \in BOOLEAN :
        LET c == calls[i]
        IN /\ prefs' = IF ok THEN prefs \cup {c.uid} ELSE prefs
           /\ Return(i, [c EXCEPT !.failed = c.failed \/ ~ok], c.found)
    /\ UNCHANGED <<cvars, avars, ovars, hvars>>

NextProfile ==
    \/ \E u \in Users, e \in Emails : GetOrCreateProfileCall(u, e)
    \/ \E i \in 1 .. MaxProfileCalls : ByUserIdResolves(i)
    \/ \E i \in 1 .. MaxProfileCalls : ByEmailResolves(i)
    \/ \E i \in 1 .. MaxProfileCalls : UpdateUserIdResolves(i)
    \/ \E i \in 1 .. MaxProfileCalls : InsertResolves(i)
    \/ \E i \in 1 .. MaxProfileCalls : PrefsSelectResolves(i)
    \/ \E i \in 1 .. MaxProfileCalls : PrefsInsertResolves(i)

SpecProfile == InitProfile /\ [][NextProfile]_vars

\* the call that returned last ran alone, started with no call in flight
\* after a call with the same identity and email had returned a profile, and
\* no remote call of it failed
C10_SecondOfTwo ==
    /\ plast.alone
    /\ plast.prev.has
    /\ plast.prev.uid = plast.uid
    /\ plast.prev.email = plast.email
    /\ plast.prev.result # 0
    /\ ~plast.failed

\* C10: two successive getOrCreateProfile calls with the same identity and
\* email, without remote failure, return the same profile id, and the second
\* creates no profile row.
C10_SameProfileTwice ==
    C10_SecondOfTwo => (plast.result = plast.prev.result /\ ~plast.created)

C10_Witness ==
    /\ C10_SecondOfTwo
    /\ plast.result = plast.prev.result
    /\ \E r \in profiles : r.id = plast.result /\ r.id = NewProfileId - 1 /\ r.id > 1

\* no remote call of any getOrCreateProfile call has failed so far
NoProfileFailureYet ==
    plast.clean /\ \A i \in DOMAIN calls : ~calls[i].failed

ProfilesOf(table, userId) == {r \in table : r.user_id = userId}

\* C11: whatever the interleaving of getOrCreateProfile calls for one
\* identity, and with every remote call succeeding, the table user_profiles
\* holds at most one profile of that identity.
C11_AtMostOneProfilePerIdentity ==
    NoProfileFailureYet =>
        \A u \in Users : Cardinality(ProfilesOf(profiles, u)) <= 1

\* the call that returned last ran alone and none of its remote calls failed
C12_LastRanAlone == plast.uid # NoUser /\ plast.alone /\ ~plast.failed

C12_ByEmail == {r \in plast.pre : r.email = plast.email}

\* C12: a call that finds no profile of the identity but one of the email
\* creates nothing, gives that profile the identity and returns its id; a
\* profile is created only when neither lookup finds one, and it is named
\* after the local part of the email.
C12_AdoptsProfileOfEmail ==
    C12_LastRanAlone =>
        /\ (ProfilesOf(plast.pre, plast.uid) = {} /\ C12_ByEmail # {}) =>
              /\ ~plast.created
              /\ Cardinality(plast.post) = Cardinality(plast.pre)
              /\ \E r \in C12_ByEmail : r.id = plast.result
              /\ \E r \in plast.post :
                    r.id = plast.result /\ r.user_id = plast.uid
        /\ plast.created =>
              /\ ProfilesOf(plast.pre, plast.uid) = {}
              /\ C12_ByEmail = {}
              /\ plast.post = plast.pre \cup
                    {[id |-> plast.result, user_id |-> plast.uid,
                      email |-> plast.email, name |-> plast.email.local]}

\* a guest profile with the email was given the identity
C12_Witness ==
    /\ C12_LastRanAlone
    /\ ProfilesOf(plast.pre, plast.uid) = {}
    /\ \E r \in plast.pre : r.email = plast.email /\ r.user_id = NoUser
    /\ ~plast.created
    /\ \E r \in plast.post : r.id = plast.result /\ r.user_id = plast.uid

\* a profile was created because neither lookup found one in a table that
\* holds other profiles
C12_WitnessCreated ==
    /\ C12_LastRanAlone
    /\ plast.created
    /\ plast.pre # {}

(* ============== UserContext: the address operations ==================== *)
\* JSON.stringify(profile) and back
ProfileJSON(profile) ==
    <<profile.id, profile.phone,
      [k \in DOMAIN profile.addresses |->
          <<profile.addresses[k].id, profile.addresses[k].title,
            profile.addresses[k].isDefault>>]>>

StoredProfile(profile) == [present |-> TRUE, text |-> ProfileJSON(profile)]

\* the profile id UserService.createOrUpdateUserProfile answers with
ServiceProfileId == "q1"

\* tables the store may hold at start-up: none; two addresses of the user's
\* profile, the first the default, and the default address of another profile
InitAddressRows ==
    {{},
     {AddressRow(RemoteAddressId(101), "p1", "home", TRUE, 1),
      AddressRow(RemoteAddressId(102), "p1", "work", FALSE, 2),
      AddressRow(RemoteAddressId(103), "p2", "home", TRUE, 3)}}

AddressTask(op, id, arg, n, alone) ==
    [op |-> op, pc |-> "userId", id |-> id, arg |-> arg, n |-> n,
     profile |-> ustate.profile, alone |-> alone, auth |-> FALSE,
     unsetFailed |-> FALSE, writeFailed |-> FALSE, readFailed |-> FALSE,
     pre |-> addresses, preLocal |-> ustate.profile.addresses]

\* saveUserData() started by the save effect with the profile just set:
\* UserService.createOrUpdateUserProfile is awaited
SaveTask(profile) ==
    [op |-> "saveUserData", pc |-> "svc", id |-> LocalAddressId(0),
     arg |-> Partial(FALSE, "home", FALSE, FALSE), n |-> 0,
     profile |-> profile, alone |-> FALSE, auth |-> FALSE,
     unsetFailed |-> FALSE, writeFailed |-> FALSE, readFailed |-> FALSE,
     pre |-> {}, preLocal |-> <<>>]

\* the history: the step, its task, whether the operation ended and how,
\* whether the step set off a push through UserService, and whether every
\* call to the address table has succeeded so far
AddressStep(t, step, fin, rejected, svc) ==
    [step |-> step, op |-> t.op, fin |-> fin, rejected |-> rejected,
     svc |-> svc,
     clean |-> alast.clean /\ ~(t.unsetFailed \/ t.writeFailed \/ t.readFailed),
     t |-> t]

IsOperation(t) == t.op # "saveUserData"

OperationsInFlight == Len(SelectSeq(atasks, IsOperation))

NotAlone(ts) ==
    [k \in DOMAIN ts |-> [ts[k] EXCEPT !.alone = FALSE]]

\* the state after start-up: a guest with or without a phone number, or
\* the signed-in user whose profile and addresses were loaded from the store
InitAddress ==
    /\ CartIdle
    /\ AuthIdle
    /\ ProfilesIdle
    /\ OrdersIdle
    /\ addresses \in InitAddressRows
    /\ \/ \E phone \in {NoPhone} \cup Phones :
            /\ ustate = [profile |-> UserProfile(DefaultUser, phone, <<>>),
                         isLoading |-> FALSE]
            /\ ucache = [userId |-> NoUser,
                         userProfile |->
                            IF phone = NoPhone THEN NoValue
                            ELSE StoredProfile(UserProfile(DefaultUser, phone, <<>>)),
                         userPhone |-> phone]
       \/ LET profile == UserProfile("p1", NoPhone,
                             ToLocal(getAddresses(addresses, "p1", TRUE)))
          IN /\ ustate = [profile |-> profile, isLoading |-> FALSE]
             /\ ucache = [userId |-> "u1", userProfile |-> StoredProfile(profile),
                          userPhone |-> NoPhone]
    /\ atasks = <<>>
    /\ anops = 0
    /\ alast = NoAddressStep

CanStartAddressOp ==
    anops < MaxAddressOps /\ OperationsInFlight < MaxAddressTasks

\* an address operation is called: AsyncStorage.getItem('userId') is awaited
\* with state.profile of the render the call was made from
StartAddressOp(op, id, arg) ==
    /\ LET t == AddressTask(op, id, arg, anops + 1, OperationsInFlight = 0)
       IN /\ atasks' = Append(NotAlone(atasks), t)
          /\ alast' = AddressStep(t, "call", FALSE, FALSE, FALSE)
    /\ anops' = anops + 1
    /\ UNCHANGED <<ustate, ucache, addresses>>
    /\ UNCHANGED <<cvars, pvars, ovars, hvars>>

\* the ids a screen can pass: those of the addresses it shows
LocalIds == {ustate.profile.addresses[k].id : k \in DOMAIN ustate.profile.addresses}

\* every id an address can have in one behaviour
AddressIds ==
    {LocalAddressId(n) : n \in 1 .. MaxAddressOps}
    \cup {RemoteAddressId(n) : n \in (1 .. MaxAddressOps) \cup {101, 102}}

\* the positions a task can have among those in flight: the operations and
\* the saves their dispatches start
TaskSlots == 1 .. (2 * MaxAddressOps)

AddAddressCall(title, isDefault) ==
    /\ CanStartAddressOp
    /\ StartAddressOp("addAddress", LocalAddressId(0),
                      Partial(TRUE, title, TRUE, isDefault))

UpdateAddressCall(id, address) ==
    /\ CanStartAddressOp
    /\ id \in LocalIds
    /\ StartAddressOp("updateAddress", id, address)

DeleteAddressCall(id) ==
    /\ CanStartAddressOp
    /\ id \in LocalIds
    /\ StartAddressOp("deleteAddress", id, Partial(FALSE, "home", FALSE, FALSE))

SetDefaultAddressCall(id) ==
    /\ CanStartAddressOp
    /\ id \in LocalIds
    /\ StartAddressOp("setDefaultAddress", id, Partial(FALSE, "home", FALSE, FALSE))

\* dispatch, then the save effect of the provider: a profile with a phone
\* number is written to the cache and pushed through UserService
AfterDispatch(ts, c, newState, t, step, rejected) ==
    LET saves == newState.profile.has /\ newState.profile.phone # NoPhone
    IN /\ ustate' = newState
       /\ ucache' = IF saves
                    THEN [c EXCEPT !.userProfile = StoredProfile(newState.profile),
                                   !.userPhone = newState.profile.phone]
                    ELSE c
       /\ atasks' = IF saves THEN Append(ts, SaveTask(newState.profile)) ELSE ts
       /\ alast' = AddressStep(t, step, TRUE, rejected, saves)

\* the branch of the operation taken without an identity: one dispatch
GuestDispatch(s, t) ==
    CASE t.op = "addAddress" ->
            userReducer_ADD_ADDRESS(s, UserAddress(LocalAddressId(t.n),
                                       t.arg.title, t.arg.isDefault))
      [] t.op = "updateAddress" -> userReducer_UPDATE_ADDRESS(s, t.id, t.arg)
      [] t.op = "deleteAddress" -> userReducer_DELETE_ADDRESS(s, t.id)
      [] OTHER -> userReducer_SET_DEFAULT_ADDRESS(s, t.id)

\* the service clears the defaults of the profile before its write
NeedsUnset(t) ==
    \/ t.op = "setDefaultAddress"
    \/ t.op \in {"addAddress", "updateAddress"}
       /\ t.arg.hasIsDefault /\ t.arg.isDefault

\* AsyncStorage.getItem('userId') returns
AddressUserIdResolves(i) ==
    /\ i \in DOMAIN atasks
    /\ atasks[i].pc = "userId"
    /\ LET t == atasks[i]
           userId == ucache.userId
       IN IF userId # NoUser /\ t.profile.has /\ t.profile.id # DefaultUser
          THEN LET t2 == [t EXCEPT !.auth = TRUE,
                                   !.pc = IF NeedsUnset(t) THEN "unset"
                                          ELSE "write"]
               IN /\ atasks' = [atasks EXCEPT ![i] = t2]
                  /\ alast' = AddressStep(t2, "userId", FALSE, FALSE, FALSE)
                  /\ UNCHANGED <<ustate, ucache>>
          ELSE AfterDispatch(Without(atasks, i), ucache, GuestDispatch(ustate, t),
                             t, "guest", FALSE)
    /\ UNCHANGED <<addresses, anops>>
    /\ UNCHANGED <<cvars, pvars, ovars, hvars>>

\* update({ is_default: false }) of the whole profile returns; its result is
\* not looked at
UnsetDefaultsResolves(i) ==
    /\ i \in DOMAIN atasks
    /\ atasks[i].pc = "unset"
    /\ \E ok \in BOOLEAN :
        LET t == atasks[i]
            t2 == [t EXCEPT !.pc = "write", !.unsetFailed = ~ok]
        IN /\ addresses' = IF ok THEN UnsetDefaults(addresses, t.profile.id)
                           ELSE addresses
           /\ atasks' = [atasks EXCEPT ![i] = t2]
           /\ alast' = AddressStep(t2, "unset", FALSE, FALSE, FALSE)
    /\ UNCHANGED <<ustate, ucache, anops>>
    /\ UNCHANGED <<cvars, pvars, ovars, hvars>>

NextCreated ==
    IF addresses = {} THEN 1
    ELSE 1 + CHOOSE c \in {r.created_at : r \in addresses} :
                \A r \in addresses : r.created_at <= c

\* what the write of the operation does to the table when it succeeds
WrittenRows(rows, t) ==
    CASE t.op = "addAddress" ->
            rows \cup {AddressRow(RemoteAddressId(t.n), t.profile.id,
                                  t.arg.title, t.arg.isDefault, NextCreated)}
      [] t.op = "updateAddress" -> UpdateRow(rows, t.id, t.profile.id, t.arg)
      [] t.op = "deleteAddress" -> DeleteRow(rows, t.id, t.profile.id)
      [] OTHER -> SetDefault(rows, t.id, t.profile.id)

\* the insert, update or delete of the operation returns: addAddress throws
\* the error it gets, the other three do not look at it
AddressWriteResolves(i) ==
    /\ i \in DOMAIN atasks
    /\ atasks[i].pc = "write"
    /\ \E ok \in BOOLEAN :
        LET t == atasks[i]
            t2 == [t EXCEPT !.pc = "fetch", !.writeFailed = ~ok]
        IN /\ addresses' = IF ok THEN WrittenRows(addresses, t) ELSE addresses
           /\ IF ~ok /\ t.op = "addAddress"
              THEN /\ atasks' = Without(atasks, i)
                   /\ alast' = AddressStep(t2, "write", TRUE, TRUE, FALSE)
              ELSE /\ atasks' = [atasks EXCEPT ![i] = t2]
                   /\ alast' = AddressStep(t2, "write", FALSE, FALSE, FALSE)
    /\ UNCHANGED <<ustate, ucache, anops>>
    /\ UNCHANGED <<cvars, pvars, ovars, hvars>>

\* getAddresses returns: the closure's profile with the fetched addresses
\* replaces the local profile and is written to the cache
GetAddressesResolves(i) ==
    /\ i \in DOMAIN atasks
    /\ atasks[i].pc = "fetch"
    /\ \E ok \in BOOLEAN :
        LET t == atasks[i]
            allAddresses == getAddresses(addresses, t.profile.id, ok)
            updatedProfile ==
                [t.profile EXCEPT !.addresses = ToLocal(allAddresses)]
        IN AfterDispatch(Without(atasks, i),
                         [ucache EXCEPT !.userProfile = StoredProfile(updatedProfile)],
                         userReducer_SET_PROFILE(ustate, updatedProfile),
                         [t EXCEPT !.pc = "done", !.readFailed = ~ok],
                         "fetch", FALSE)
    /\ UNCHANGED <<addresses, anops>>
    /\ UNCHANGED <<cvars, pvars, ovars, hvars>>

\* UserService.createOrUpdateUserProfile returns inside saveUserData: the
\* local profile takes the id it answers with; an error is caught
SaveUserDataResolves(i) ==
    /\ i \in DOMAIN atasks
    /\ atasks[i].pc = "svc"
    /\ \E ok \in BOOLEAN :
        LET t == atasks[i]
        IN IF ok /\ (t.profile.id = DefaultUser \/ t.profile.id # ServiceProfileId)
           THEN AfterDispatch(Without(atasks, i), ucache,
                              userReducer_UPDATE_PROFILE_id(ustate, ServiceProfileId),
                              t, "save", FALSE)
           ELSE /\ atasks' = Without(atasks, i)
                /\ alast' = AddressStep(t, "save", TRUE, FALSE, FALSE)
                /\ UNCHANGED <<ustate, ucache>>
    /\ UNCHANGED <<addresses, anops>>
    /\ UNCHANGED <<cvars, pvars, ovars, hvars>>

\* the session ends: clearUserData()
ClearUserData ==
    /\ ucache.userId # NoUser
    /\ anops < MaxAddressOps
    /\ anops' = anops + 1
    /\ ustate' = userReducer_SET_PROFILE(ustate, defaultProfile)
    /\ ucache' = [ucache EXCEPT !.userProfile = NoValue, !.userId = NoUser]
    /\ atasks' = NotAlone(atasks)
    /\ alast' = [NoAddressStep EXCEPT !.step = "clear", !.op = "clearUserData",
                                      !.fin = TRUE, !.clean = alast.clean]
    /\ UNCHANGED addresses
    /\ UNCHANGED <<cvars, pvars, ovars, hvars>>

NextAddress ==
    \/ \E title \in {"home"}, isDefault \in BOOLEAN : AddAddressCall(title, isDefault)
    \/ \E id \in AddressIds, address \in PartialInputs : UpdateAddressCall(id, address)
    \/ \E id \in AddressIds : DeleteAddressCall(id)
    \/ \E id \in AddressIds : SetDefaultAddressCall(id)
    \/ ClearUserData
    \/ \E i \in TaskSlots : AddressUserIdResolves(i)
    \/ \E i \in TaskSlots : UnsetDefaultsResolves(i)
    \/ \E i \in TaskSlots : AddressWriteResolves(i)
    \/ \E i \in TaskSlots : GetAddressesResolves(i)
    \/ \E i \in TaskSlots : SaveUserDataResolves(i)

SpecAddress == InitAddress /\ [][NextAddress]_vars

(* ----------------------- claims on the addresses ----------------------- *)
LocalDefaults ==
    {k \in DOMAIN ustate.profile.addresses : ustate.profile.addresses[k].isDefault}

RemoteDefaults(userProfileId) ==
    {r \in addresses : r.user_profile_id = userProfileId /\ r.is_default}

\* the step just taken ended an operation that ran alone and met no failure
AddressOpDoneAlone(op) ==
    /\ alast.fin
    /\ alast.op = op
    /\ alast.t.alone
    /\ ~(alast.t.unsetFailed \/ alast.t.writeFailed \/ alast.t.readFailed)
    /\ ~alast.rejected

\* the id passed to the operation named an address of the profile
C13_IdOfTheProfile ==
    IF alast.t.auth
    THEN \E r \in alast.t.pre :
            r.id = alast.t.id /\ r.user_profile_id = alast.t.profile.id
    ELSE \E k \in DOMAIN alast.t.preLocal : alast.t.preLocal[k].id = alast.t.id

GuestProfile ==
    ucache.userId = NoUser /\ ustate.profile.id \notin ProfileIds

\* C14: in the local profile of a guest at most one address is the default,
\* whatever guest operations ran.
C14_GuestAtMostOneDefault ==
    GuestProfile => Cardinality(LocalDefaults) <= 1

\* C15: with every remote call succeeding, once no address operation is in
\* flight each profile has at most one default address in the store, and
\* so it has while a single operation runs alone.
C15_RemoteAtMostOneDefault ==
    (alast.clean /\ (OperationsInFlight = 0
                     \/ (OperationsInFlight = 1
                         /\ \A i \in DOMAIN atasks :
                               IsOperation(atasks[i]) => atasks[i].alone))) =>
        \A pid \in {r.user_profile_id : r \in addresses} :
            Cardinality(RemoteDefaults(pid)) <= 1

\* the addresses as sets of what they say
LocalAddressSet ==
    {<<ustate.profile.addresses[k].id, ustate.profile.addresses[k].title,
       ustate.profile.addresses[k].isDefault>> :
        k \in DOMAIN ustate.profile.addresses}

RemoteAddressSet(userProfileId) ==
    {<<r.id, r.title, r.is_default>> :
        r \in {q \in addresses : q.user_profile_id = userProfileId}}

\* the write an operation asked for is in the table
C16_Written ==
    LET t == alast.t
        mine == {r \in addresses : r.user_profile_id = t.profile.id}
    IN CASE t.op = "addAddress" ->
              \E r \in mine \ t.pre :
                 r.title = t.arg.title /\ r.is_default = t.arg.isDefault
         [] t.op = "deleteAddress" -> \A r \in mine : r.id # t.id
         [] t.op = "setDefaultAddress" -> \A r \in mine : r.is_default <=> r.id = t.id
         [] OTHER ->
              \A r \in mine : r.id = t.id =>
                 /\ t.arg.hasTitle => r.title = t.arg.title
                 /\ t.arg.hasIsDefault => r.is_default = t.arg.isDefault

\* C16: after an address operation of a signed-in user has completed alone
\* and without failure, the store holds what it wrote and the local address
\* list is the address set of the profile in the store.
C16_LocalEqualsRemote ==
    (alast.step = "fetch"
     /\ \E op \in {"addAddress", "updateAddress", "deleteAddress",
                    "setDefaultAddress"} : AddressOpDoneAlone(op)) =>
        /\ C16_Written
        /\ LocalAddressSet = RemoteAddressSet(ustate.profile.id)
        /\ Len(ustate.profile.addresses) =
              Cardinality(RemoteAddressSet(ustate.profile.id))

\* an address was added to a profile that had some, and the list changed
C16_Witness ==
    /\ alast.step = "fetch"
    /\ AddressOpDoneAlone("addAddress")
    /\ alast.t.preLocal # <<>>
    /\ Len(ustate.profile.addresses) = Len(alast.t.preLocal) + 1
    /\ LocalAddressSet = RemoteAddressSet(ustate.profile.id)

\* C17: an address operation of a signed-in user whose write the store
\* failed or rejected ends by rejecting.
C17_WriteFailureReported ==
    (alast.fin /\ alast.t.auth /\ alast.t.writeFailed) => alast.rejected

\* C18: an address operation without an identity changes the local profile
\* only: the address table is left alone, no call to the remote store
\* follows from it, and an added address has an id starting with 'address_'.
C18_GuestOnlyLocal ==
    [][alast'.step = "guest" =>
          /\ addresses' = addresses
          /\ ~alast'.svc
          /\ alast'.op = "addAddress" =>
                /\ Len(ustate'.profile.addresses) = Len(ustate.profile.addresses) + 1
                /\ StartsWithAddress_(
                      ustate'.profile.addresses[Len(ustate'.profile.addresses)].id)
      ]_vars

(* ==================== OrderContext: the reducer alone ================== *)
\* the statuses the payloads are drawn from: some of each kind
StatusInputs == {"pending", "out_for_delivery", "delivering", "delivered", "cancelled"}

OrderInputs == {Order(id, status) : id \in OrderIds, status \in StatusInputs}

\* the lists of at most n orders
RECURSIVE OrderLists(_)
OrderLists(n) ==
    IF n = 0 THEN {<<>>}
    ELSE OrderLists(n - 1) \cup
         {<<o>> \o l : o \in OrderInputs,
                       l \in {m \in OrderLists(n - 1) : Len(m) = n - 1}}

InitOrderReducer ==
    /\ CartIdle
    /\ AuthIdle
    /\ ProfilesIdle
    /\ AddressesIdle
    /\ OrdersIdle

Dispatch_SET_LOADING(payload) ==
    /\ ostate' = orderReducer_SET_LOADING(ostate, payload)
    /\ UNCHANGED <<ocache, orders, otasks, onops, olast>>
    /\ UNCHANGED <<cvars, pvars, avars, hvars>>

Dispatch_SET_ORDERS(payload) ==
    /\ ostate' = orderReducer_SET_ORDERS(ostate, payload)
    /\ UNCHANGED <<ocache, orders, otasks, onops, olast>>
    /\ UNCHANGED <<cvars, pvars, avars, hvars>>

Dispatch_ADD_ORDER(payload) ==
    /\ Len(ostate.orders) < MaxOrders
    /\ ostate' = orderReducer_ADD_ORDER(ostate, payload)
    /\ UNCHANGED <<ocache, orders, otasks, onops, olast>>
    /\ UNCHANGED <<cvars, pvars, avars, hvars>>

Dispatch_UPDATE_ORDER(payload) ==
    /\ ostate' = orderReducer_UPDATE_ORDER(ostate, payload)
    /\ UNCHANGED <<ocache, orders, otasks, onops, olast>>
    /\ UNCHANGED <<cvars, pvars, avars, hvars>>

Dispatch_SET_ERROR(payload) ==
    /\ ostate' = orderReducer_SET_ERROR(ostate, payload)
    /\ UNCHANGED <<ocache, orders, otasks, onops, olast>>
    /\ UNCHANGED <<cvars, pvars, avars, hvars>>

Dispatch_CLEAR_ORDERS ==
    /\ ostate' = orderReducer_CLEAR_ORDERS(ostate)
    /\ UNCHANGED <<ocache, orders, otasks, onops, olast>>
    /\ UNCHANGED <<cvars, pvars, avars, hvars>>

NextOrderReducer ==
    \/ \E payload \in BOOLEAN : Dispatch_SET_LOADING(payload)
    \/ \E payload \in OrderLists(MaxOrders) : Dispatch_SET_ORDERS(payload)
    \/ \E payload \in OrderInputs : Dispatch_ADD_ORDER(payload)
    \/ \E payload \in OrderInputs : Dispatch_UPDATE_ORDER(payload)
    \/ \E payload \in ErrorMessages \cup {NoError} : Dispatch_SET_ERROR(payload)
    \/ Dispatch_CLEAR_ORDERS

SpecOrderReducer == InitOrderReducer /\ [][NextOrderReducer]_vars

\* the orders of a list whose status is one of `statuses`, in the list's order
SpecWithStatus(list, statuses) ==
    LET keep == {k \in DOMAIN list : list[k].order_status \in statuses}
        nth[n \in 0 .. Len(list)] ==
            IF n = 0 THEN <<>>
            ELSE IF n \in keep THEN Append(nth[n - 1], list[n]) ELSE nth[n - 1]
    IN nth[Len(list)]

InList(o, list) == \E k \in DOMAIN list : list[k] = o

\* C19: activeOrders is the orders with an open status, orderHistory those
\* with a terminal status, and every order is in exactly one of the two.
C19_PartitionOfOrders ==
    /\ ostate.activeOrders =
          SpecWithStatus(ostate.orders,
              {"pending", "confirmed", "preparing", "ready", "out_for_delivery"})
    /\ ostate.orderHistory =
          SpecWithStatus(ostate.orders, {"delivered", "cancelled"})
    /\ \A k \in DOMAIN ostate.orders :
          InList(ostate.orders[k], ostate.activeOrders)
             # InList(ostate.orders[k], ostate.orderHistory)

(* ================== OrderContext: the operations ======================= *)
\* OrderService.getOrdersByUserId: the orders of the user, newest first; a
\* failure of the store is thrown to the caller
getOrdersByUserId(rows, ok) ==
    [thrown |-> ~ok, data |-> IF ok THEN rows ELSE <<>>]

\* tables the store may hold at start-up: no order of the user, or two
InitOrderRows ==
    {<<>>, <<Order("o2", "pending"), Order("o1", "delivered")>>}

\* what the cache may hold at start-up: saved in an earlier session
InitOrderCache == {NoValue, StoredOrders(<<Order("o1", "pending")>>)}

\* the mount effect: loadOrdersOnStart() awaits supabase.auth.getUser()
OrdersOnStartTask ==
    OrderTask("loadOrdersOnStart", "getUser", NoUser, Order("o1", "pending"), TRUE)

OrderStep(t, step, fin) == [step |-> step, fin |-> fin, t |-> t]

InitOrder ==
    /\ CartIdle
    /\ AuthIdle
    /\ AddressesIdle
    /\ profiles \in {{}, {ProfileRow(1, "u1", AnnEmail)}}
    /\ prefs = {}
    /\ calls = <<>>
    /\ ncalls = 0
    /\ plast = NoCall
    /\ ostate = orderInitialState
    /\ ocache \in InitOrderCache
    /\ orders \in InitOrderRows
    /\ otasks = <<OrdersOnStartTask>>
    /\ onops = 0
    /\ olast = OrderStep(OrdersOnStartTask, "call", FALSE)

CanStartOrderOp == onops < MaxOrderOps /\ Len(otasks) < MaxOrderTasks

\* loadOrdersByUserId(userId): SET_LOADING, then the fetch is awaited
LoadOrdersByUserIdCall(userId) ==
    /\ CanStartOrderOp
    /\ LET t == [OrderTask("loadOrdersByUserId", "fetch", userId,
                           Order("o1", "pending"), otasks = <<>>)
                   EXCEPT !.load = TRUE]
       IN /\ otasks' = Append(NotAlone(otasks), t)
          /\ olast' = OrderStep(t, "call", FALSE)
    /\ ostate' = orderReducer_SET_LOADING(ostate, TRUE)
    /\ onops' = onops + 1
    /\ UNCHANGED <<ocache, orders>>
    /\ UNCHANGED <<cvars, pvars, avars, hvars>>

\* getUser() returns in loadOrdersOnStart: with a user loadOrdersByUserId
\* is entered, without one the cache is read
OrdersOnStartResolves(i) ==
    /\ i \in DOMAIN otasks
    /\ otasks[i].pc = "getUser"
    /\ \E u \in {NoUser} \cup Users :
        LET t == otasks[i]
            t2 == IF u = NoUser THEN [t EXCEPT !.pc = "startGetItem"]
                  ELSE [t EXCEPT !.pc = "fetch", !.uid = u, !.load = TRUE]
        IN /\ otasks' = [otasks EXCEPT ![i] = t2]
           /\ olast' = OrderStep(t2, "getUser", FALSE)
           /\ ostate' = IF u = NoUser THEN ostate
                        ELSE orderReducer_SET_LOADING(ostate, TRUE)
    /\ UNCHANGED <<ocache, orders, onops>>
    /\ UNCHANGED <<cvars, pvars, avars, hvars>>

\* getOrdersByUserId returns or throws: orders found are set and cached, an
\* empty answer leads to the profile lookup, a failure to the fallback
GetOrdersResolves(i) ==
    /\ i \in DOMAIN otasks
    /\ otasks[i].pc \in {"fetch", "fetch2"}
    /\ \E ok \in BOOLEAN :
        LET t == otasks[i]
            fetched == getOrdersByUserId(orders, ok)
        IN IF fetched.thrown
           THEN LET t2 == [t EXCEPT !.pc = "fallback", !.fetchFailed = TRUE]
                IN /\ ostate' = orderReducer_SET_ERROR(ostate, "Failed to load orders")
                   /\ otasks' = [otasks EXCEPT ![i] = t2]
                   /\ olast' = OrderStep(t2, "fetch", FALSE)
                   /\ ocache' = ocache
           ELSE IF t.pc = "fetch" /\ Len(fetched.data) = 0
           THEN LET t2 == [t EXCEPT !.pc = "profile"]
                IN /\ otasks' = [otasks EXCEPT ![i] = t2]
                   /\ olast' = OrderStep(t2, "fetch", FALSE)
                   /\ UNCHANGED <<ostate, ocache>>
           ELSE /\ ostate' = orderReducer_SET_ORDERS(ostate, fetched.data)
                /\ ocache' = StoredOrders(fetched.data)
                /\ otasks' = Without(otasks, i)
                /\ olast' = OrderStep([t EXCEPT !.pc = "done"], "fetch", TRUE)
    /\ UNCHANGED <<orders, onops>>
    /\ UNCHANGED <<cvars, pvars, avars, hvars>>

\* the select of the profile in loadOrdersByUserId returns: with a profile
\* the orders are fetched again, without one the empty list is set and cached
OrderProfileResolves(i) ==
    /\ i \in DOMAIN otasks
    /\ otasks[i].pc = "profile"
    /\ \E ok \in BOOLEAN :
        LET t == otasks[i]
            profile == Single(ProfilesOf(profiles, t.uid), ok)
        IN IF profile.data
           THEN LET t2 == [t EXCEPT !.pc = "fetch2"]
                IN /\ otasks' = [otasks EXCEPT ![i] = t2]
                   /\ olast' = OrderStep(t2, "profile", FALSE)
                   /\ UNCHANGED <<ostate, ocache>>
           ELSE /\ ostate' = orderReducer_SET_ORDERS(ostate, <<>>)
                /\ ocache' = StoredOrders(<<>>)
                /\ otasks' = Without(otasks, i)
                /\ olast' = OrderStep([t EXCEPT !.pc = "done"], "profile", TRUE)
    /\ UNCHANGED <<orders, onops>>
    /\ UNCHANGED <<cvars, pvars, avars, hvars>>

\* AsyncStorage.getItem('userOrders') returns in the catch of
\* loadOrdersByUserId: a saved snapshot is parsed and set
FallbackResolves(i) ==
    /\ i \in DOMAIN otasks
    /\ otasks[i].pc = "fallback"
    /\ LET t == [otasks[i] EXCEPT !.pc = "done", !.snapshot = ocache]
       IN /\ ostate' = IF ocache.present
                       THEN orderReducer_SET_ORDERS(ostate, OrdersParse(ocache.text))
                       ELSE ostate
          /\ otasks' = Without(otasks, i)
          /\ olast' = OrderStep(t, "fallback", TRUE)
    /\ UNCHANGED <<ocache, orders, onops>>
    /\ UNCHANGED <<cvars, pvars, avars, hvars>>

\* AsyncStorage.getItem('userOrders') returns in loadOrdersOnStart
StartGetItemResolves(i) ==
    /\ i \in DOMAIN otasks
    /\ otasks[i].pc = "startGetItem"
    /\ LET t == [otasks[i] EXCEPT !.pc = "done", !.snapshot = ocache]
       IN /\ ostate' = IF ocache.present
                       THEN orderReducer_SET_ORDERS(ostate, OrdersParse(ocache.text))
                       ELSE ostate
          /\ otasks' = Without(otasks, i)
          /\ olast' = OrderStep(t, "startGetItem", TRUE)
    /\ UNCHANGED <<ocache, orders, onops>>
    /\ UNCHANGED <<cvars, pvars, avars, hvars>>

\* addOrder(order): ADD_ORDER, and the cache is read to be rewritten
AddOrder(order) ==
    /\ CanStartOrderOp
    /\ Len(ostate.orders) < MaxOrders
    /\ LET t == OrderTask("addOrder", "addGetItem", NoUser, order, otasks = <<>>)
       IN /\ otasks' = Append(NotAlone(otasks), t)
          /\ olast' = OrderStep(t, "call", FALSE)
    /\ ostate' = orderReducer_ADD_ORDER(ostate, order)
    /\ onops' = onops + 1
    /\ UNCHANGED <<ocache, orders>>
    /\ UNCHANGED <<cvars, pvars, avars, hvars>>

\* the getItem of addOrder returns: the order is put first and saved
AddOrderCacheResolves(i) ==
    /\ i \in DOMAIN otasks
    /\ otasks[i].pc = "addGetItem"
    /\ LET t == otasks[i]
           saved == IF ocache.present THEN OrdersParse(ocache.text) ELSE <<>>
       IN /\ ocache' = StoredOrders(<<t.order>> \o saved)
          /\ otasks' = Without(otasks, i)
          /\ olast' = OrderStep([t EXCEPT !.pc = "done"], "addGetItem", TRUE)
    /\ UNCHANGED <<ostate, orders, onops>>
    /\ UNCHANGED <<cvars, pvars, avars, hvars>>

\* clearOrders(): CLEAR_ORDERS and the cache key is removed
ClearOrders ==
    /\ onops < MaxOrderOps
    /\ ostate' = orderReducer_CLEAR_ORDERS(ostate)
    /\ ocache' = NoValue
    /\ otasks' = NotAlone(otasks)
    /\ onops' = onops + 1
    /\ olast' = [NoOrderStep EXCEPT !.step = "clear", !.fin = TRUE]
    /\ UNCHANGED orders
    /\ UNCHANGED <<cvars, pvars, avars, hvars>>

NextOrder ==
    \/ \E u \in Users : LoadOrdersByUserIdCall(u)
    \/ \E order \in OrderInputs : AddOrder(order)
    \/ ClearOrders
    \/ \E i \in 1 .. MaxOrderTasks : OrdersOnStartResolves(i)
    \/ \E i \in 1 .. MaxOrderTasks : GetOrdersResolves(i)
    \/ \E i \in 1 .. MaxOrderTasks : OrderProfileResolves(i)
    \/ \E i \in 1 .. MaxOrderTasks : FallbackResolves(i)
    \/ \E i \in 1 .. MaxOrderTasks : StartGetItemResolves(i)
    \/ \E i \in 1 .. MaxOrderTasks : AddOrderCacheResolves(i)

SpecOrder == InitOrder /\ [][NextOrder]_vars

\* the step just taken ended a loadOrdersByUserId that ran alone and whose
\* fetch from the store failed
C20_FailedLoadDone ==
    olast.fin /\ olast.t.load /\ olast.t.alone /\ olast.t.fetchFailed

\* C20: a loadOrdersByUserId whose fetch fails ends with the cached
\* snapshot as orders when there is one, and with an error and loading =
\* false when there is none.
C20_FallbackToCache ==
    C20_FailedLoadDone =>
        IF olast.t.snapshot.present
        THEN ostate.orders =
                [k \in DOMAIN olast.t.snapshot.text |->
                    [id |-> olast.t.snapshot.text[k][1],
                     order_status |-> olast.t.snapshot.text[k][2]]]
        ELSE ostate.error # NoError /\ ostate.loading = FALSE

\* the fetch failed and the orders shown are those of the cache
C20_Witness ==
    /\ C20_FailedLoadDone
    /\ olast.t.snapshot.present
    /\ ostate.orders # <<>>
    /\ ostate.error = NoError

\* the fetch failed and nothing was cached
C20_WitnessNoCache ==
    /\ C20_FailedLoadDone
    /\ ~olast.t.snapshot.present
    /\ ostate.error = "Failed to load orders"

(* ===================== AuthContext: the session ======================== *)
MaxAuthOps == 2        \* operations of the AuthProvider started in one behaviour
MaxAuthTasks == 2      \* calls on the session service in flight at once

\* what a call on the session service does: it succeeds, it returns an
\* error, or it throws
ServiceOutcomes == {"ok", "error", "throws"}

\* the state both callbacks of the mount effect set from a session
AuthStateOf(session) ==
    [user |-> session, session |-> session, loading |-> FALSE,
     isAuthenticated |-> session # NoUser, uid |-> session]

\* the mount effect: supabase.auth.getSession() is pending
GetSessionTask == AuthTask("getSession", "read", NoUser)

InitAuth ==
    /\ ProfilesIdle
    /\ AddressesIdle
    /\ OrdersIdle
    /\ state = initialState
    /\ user \in {NoUser} \cup Users
    /\ remote = [u \in Users |-> NoRow]
    /\ cache = NoValue
    /\ tasks = <<>>
    /\ nops = 0
    /\ last = Step(MountTask, "call", FALSE, FALSE, FALSE)
    /\ authState = authInitialState
    /\ authTasks = <<GetSessionTask>>
    /\ authOps = 0
    /\ authLast = NoAuthStep

CanStartAuthOp == authOps < MaxAuthOps /\ Len(authTasks) < MaxAuthTasks

StartAuthOp(op, u) ==
    /\ CanStartAuthOp
    /\ authTasks' = Append(authTasks, AuthTask(op, "await", u))
    /\ authOps' = authOps + 1
    /\ authLast' = [authLast EXCEPT !.op = op, !.outcome = "pending",
                                    !.error = FALSE]
    /\ UNCHANGED authState
    /\ UNCHANGED cvars

\* the callback of onAuthStateChange: setState from the session notified
Notified(session) ==
    /\ authState' = AuthStateOf(session)

\* the promise of an operation settles; its task leaves
Settled(i, outcome, error, notified, session) ==
    /\ authTasks' = Without(authTasks, i)
    /\ authLast' = [op |-> authTasks[i].op, outcome |-> outcome, error |-> error,
                    notified |-> IF notified THEN TRUE ELSE authLast.notified,
                    session |-> IF notified THEN session ELSE authLast.session]

SignUpCall ==
    /\ StartAuthOp("signUp", NoUser)
    /\ UNCHANGED <<pvars, avars, ovars>>

SignInCall(u) ==
    /\ StartAuthOp("signIn", u)
    /\ UNCHANGED <<pvars, avars, ovars>>

SignOutCall ==
    /\ StartAuthOp("signOut", NoUser)
    /\ UNCHANGED <<pvars, avars, ovars>>

ResetPasswordCall ==
    /\ StartAuthOp("resetPassword", NoUser)
    /\ UNCHANGED <<pvars, avars, ovars>>

UpdatePasswordCall ==
    /\ StartAuthOp("updatePassword", NoUser)
    /\ UNCHANGED <<pvars, avars, ovars>>

\* signUp: try { await supabase.auth.signUp } catch: both an error and an
\* exception are returned as { error }
SignUpResolves(i) ==
    /\ i \in DOMAIN authTasks
    /\ authTasks[i].op = "signUp"
    /\ \E r \in ServiceOutcomes :
        Settled(i, "resolved", r # "ok", FALSE, NoUser)
    /\ UNCHANGED <<authState, authOps>>
    /\ UNCHANGED cvars
    /\ UNCHANGED <<pvars, avars, ovars>>

\* signIn: await supabase.auth.signInWithPassword, no try: an exception
\* rejects the promise.  A success sets the session and notifies
SignInResolves(i) ==
    /\ i \in DOMAIN authTasks
    /\ authTasks[i].op = "signIn"
    /\ \E r \in ServiceOutcomes :
        /\ Settled(i, IF r = "throws" THEN "rejected" ELSE "resolved",
                   r = "error", r = "ok", authTasks[i].u)
        /\ user' = IF r = "ok" THEN authTasks[i].u ELSE user
        /\ IF r = "ok" THEN Notified(authTasks[i].u) ELSE UNCHANGED authState
    /\ UNCHANGED authOps
    /\ UNCHANGED <<state, remote, cache, tasks, nops, last>>
    /\ UNCHANGED <<pvars, avars, ovars>>

\* signOut: await supabase.auth.signOut, no try.  A success removes the
\* session and notifies
SignOutResolves(i) ==
    /\ i \in DOMAIN authTasks
    /\ authTasks[i].op = "signOut"
    /\ \E r \in ServiceOutcomes :
        /\ Settled(i, IF r = "throws" THEN "rejected" ELSE "resolved",
                   r = "error", r = "ok", NoUser)
        /\ user' = IF r = "ok" THEN NoUser ELSE user
        /\ IF r = "ok" THEN Notified(NoUser) ELSE UNCHANGED authState
    /\ UNCHANGED authOps
    /\ UNCHANGED <<state, remote, cache, tasks, nops, last>>
    /\ UNCHANGED <<pvars, avars, ovars>>

\* resetPassword: try { await supabase.auth.resetPasswordForEmail } catch
ResetPasswordResolves(i) ==
    /\ i \in DOMAIN authTasks
    /\ authTasks[i].op = "resetPassword"
    /\ \E r \in ServiceOutcomes :
        Settled(i, "resolved", r # "ok", FALSE, NoUser)
    /\ UNCHANGED <<authState, authOps>>
    /\ UNCHANGED cvars
    /\ UNCHANGED <<pvars, avars, ovars>>

\* updatePassword: await supabase.auth.updateUser, no try.  Without a
\* session the service returns an error; a success notifies the session
UpdatePasswordResolves(i) ==
    /\ i \in DOMAIN authTasks
    /\ authTasks[i].op = "updatePassword"
    /\ \E r \in ServiceOutcomes :
        /\ r = "ok" => user # NoUser
        /\ Settled(i, IF r = "throws" THEN "rejected" ELSE "resolved",
                   r = "error", r = "ok", user)
        /\ IF r = "ok" THEN Notified(user) ELSE UNCHANGED authState
    /\ UNCHANGED authOps
    /\ UNCHANGED cvars
    /\ UNCHANGED <<pvars, avars, ovars>>

\* getSession(): the service reads the session it holds
GetSessionReads(i) ==
    /\ i \in DOMAIN authTasks
    /\ authTasks[i].op = "getSession"
    /\ authTasks[i].pc = "read"
    /\ authTasks' = [authTasks EXCEPT ![i].pc = "then", ![i].read = user]
    /\ UNCHANGED <<authState, authOps, authLast>>
    /\ UNCHANGED cvars
    /\ UNCHANGED <<pvars, avars, ovars>>

\* getSession().then: setState from the session that was read
GetSessionThen(i) ==
    /\ i \in DOMAIN authTasks
    /\ authTasks[i].op = "getSession"
    /\ authTasks[i].pc = "then"
    /\ authState' = AuthStateOf(authTasks[i].read)
    /\ authTasks' = Without(authTasks, i)
    /\ authLast' = [authLast EXCEPT !.op = "getSession", !.outcome = "resolved",
                                    !.error = FALSE]
    /\ UNCHANGED authOps
    /\ UNCHANGED cvars
    /\ UNCHANGED <<pvars, avars, ovars>>

AuthSlots == 1 .. (MaxAuthTasks + 1)

NextAuth ==
    \/ SignUpCall
    \/ \E u \in Users : SignInCall(u)
    \/ SignOutCall
    \/ ResetPasswordCall
    \/ UpdatePasswordCall
    \/ \E i \in AuthSlots : SignUpResolves(i)
    \/ \E i \in AuthSlots : SignInResolves(i)
    \/ \E i \in AuthSlots : SignOutResolves(i)
    \/ \E i \in AuthSlots : ResetPasswordResolves(i)
    \/ \E i \in AuthSlots : UpdatePasswordResolves(i)
    \/ \E i \in AuthSlots : GetSessionReads(i)
    \/ \E i \in AuthSlots : GetSessionThen(i)

SpecAuth == InitAuth /\ [][NextAuth]_vars

\* C21: signUp, signIn, signOut, resetPassword and updatePassword settle
\* with a success/error outcome whatever the session service does, also
\* when its call throws; none of them rejects.
C21_NeverRejects == authLast.outcome # "rejected"

\* C22: once a notification has been delivered, the exposed user, session
\* and uid are those of the last notification; the late result of the
\* initial getSession() never replaces them.
C22_StateOfLastNotification ==
    authLast.notified =>
        /\ authState.user = authLast.session
        /\ authState.session = authLast.session
        /\ authState.uid = authLast.session

(* ============ properties of the addresses: the failed refetch ========== *)
\* an authenticated address operation that ran alone has ended, and the
\* getAddresses that follows its write failed
C30_RefetchFailed ==
    /\ alast.fin
    /\ alast.step = "fetch"
    /\ alast.t.auth
    /\ alast.t.alone
    /\ alast.t.readFailed

\* C30: when the refetch after an authenticated address mutation fails, the
\* local address list keeps its previous contents.
C30_FailedRefetchKeepsList ==
    C30_RefetchFailed => ustate.profile.addresses = alast.t.preLocal

(* ============ the Index screen: the session changes ==================== *)
MaxSessionChanges == 2     \* sign-ins and sign-outs in one behaviour

\* the profile of the signed-in user in user_profiles, which
\* getOrCreateProfile finds by user_id
ProfileIdOf(u) == "p1"

\* syncUserWithAuth(userId, email) in flight
SyncTask(u) ==
    [op |-> "syncUserWithAuth", pc |-> "profile", uid |-> u, profileId |-> DefaultUser]

\* the local cart after the mount of the provider: the guest's is the cached
\* one, the signed-in user's the remote one when it holds items
MountedCart(u, row, c) ==
    IF u # NoUser /\ row.exists /\ Len(row.cart_items) > 0
    THEN row.cart_items
    ELSE IF c.present THEN JSONparse(c.text) ELSE <<>>

\* the containers after start-up and before the session changes: a guest
\* on a fresh install, or the signed-in user with everything loaded
InitSession ==
    /\ user \in {NoUser} \cup Users
    /\ remote \in [Users -> InitRows]
    /\ \E c \in {NoValue, Stored(<<CartItem("A", 1)>>)} :
        LET items == MountedCart(user, IF user = NoUser THEN NoRow ELSE remote[user], c)
        IN /\ state = reduce_LOAD_CART(initialState, items)
           /\ cache = saveEffect(c, items)
    /\ tasks = <<>>
    /\ nops = 0
    /\ last = Step(MountTask, "call", FALSE, FALSE, FALSE)
    /\ profiles = {ProfileRow(1, "u1", AnnEmail)}
    /\ prefs = {}
    /\ calls = <<>>
    /\ ncalls = 0
    /\ plast = NoCall
    /\ addresses \in InitAddressRows
    /\ orders \in InitOrderRows
    /\ IF user = NoUser
       THEN /\ ustate = [profile |-> defaultProfile, isLoading |-> FALSE]
            /\ ucache = [userId |-> NoUser, userProfile |-> NoValue,
                         userPhone |-> NoPhone]
            /\ ostate = orderInitialState
            /\ ocache = NoValue
       ELSE LET profile == UserProfile(ProfileIdOf(user), NoPhone,
                               ToLocal(getAddresses(addresses, ProfileIdOf(user), TRUE)))
            IN /\ ustate = [profile |-> profile, isLoading |-> FALSE]
               /\ \E phone \in {NoPhone} \cup Phones :
                     ucache = [userId |-> user, userProfile |-> StoredProfile(profile),
                               userPhone |-> phone]
               /\ ostate = orderReducer_SET_ORDERS(orderInitialState, orders)
               /\ ocache = StoredOrders(orders)
    /\ atasks = <<>>
    /\ anops = 0
    /\ alast = NoAddressStep
    /\ otasks = <<>>
    /\ onops = 0
    /\ olast = NoOrderStep
    /\ authState = AuthStateOf(user)
    /\ authTasks = <<>>
    /\ authOps = 0
    /\ authLast = NoAuthStep

\* the session becomes that of u; the effect of Index starts
\* syncUserWithAuth, loadCartFromServer and loadOrdersByUserId
SessionSignedIn(u) ==
    /\ authOps < MaxSessionChanges
    /\ user = NoUser
    /\ user' = u
    /\ authState' = AuthStateOf(u)
    /\ authOps' = authOps + 1
    /\ authLast' = [NoAuthStep EXCEPT !.op = "signedIn", !.outcome = "resolved",
                                      !.notified = TRUE, !.session = u]
    /\ ustate' = userReducer_SET_LOADING(ustate, TRUE)
    /\ atasks' = Append(atasks, SyncTask(u))
    /\ state' = reduce_SET_LOADING(state, TRUE)
    /\ LET t == NewTask("loadCartFromServer", "getCart", "A", 0, u, state,
                        tasks = <<>>)
       IN /\ tasks' = Append(Dirty(tasks), t)
          /\ last' = Step(t, "call", FALSE, FALSE, FALSE)
    /\ nops' = nops + 1
    /\ ostate' = orderReducer_SET_LOADING(ostate, TRUE)
    /\ LET t == [OrderTask("loadOrdersByUserId", "fetch", u,
                           Order("o1", "pending"), otasks = <<>>)
                   EXCEPT !.load = TRUE]
       IN /\ otasks' = Append(NotAlone(otasks), t)
          /\ olast' = OrderStep(t, "call", FALSE)
    /\ onops' = onops + 1
    /\ UNCHANGED <<remote, cache, ucache, addresses, anops, alast, ocache, orders,
                   authTasks>>
    /\ UNCHANGED pvars

\* the session ends; the effect of Index calls clearUserData() and
\* clearOrders()
SessionSignedOut ==
    /\ authOps < MaxSessionChanges
    /\ user # NoUser
    /\ user' = NoUser
    /\ authState' = AuthStateOf(NoUser)
    /\ authOps' = authOps + 1
    /\ authLast' = [NoAuthStep EXCEPT !.op = "signedOut", !.outcome = "resolved",
                                      !.notified = TRUE, !.session = NoUser]
    /\ ustate' = userReducer_SET_PROFILE(ustate, defaultProfile)
    /\ ucache' = [ucache EXCEPT !.userProfile = NoValue, !.userId = NoUser]
    /\ ostate' = orderReducer_CLEAR_ORDERS(ostate)
    /\ ocache' = NoValue
    /\ otasks' = NotAlone(otasks)
    /\ onops' = onops + 1
    /\ olast' = [NoOrderStep EXCEPT !.step = "clear", !.fin = TRUE]
    /\ UNCHANGED <<state, remote, cache, tasks, nops, last>>
    /\ UNCHANGED <<addresses, atasks, anops, alast, orders, authTasks>>
    /\ UNCHANGED pvars

\* getOrCreateProfile returns in syncUserWithAuth: the profile of the user,
\* or null, on which the sync gives up
SyncProfileResolves(i) ==
    /\ i \in DOMAIN atasks
    /\ atasks[i].pc = "profile"
    /\ \E found \in BOOLEAN :
        IF found
        THEN /\ atasks' = [atasks EXCEPT ![i].pc = "fetch",
                                         ![i].profileId = ProfileIdOf(atasks[i].uid)]
             /\ UNCHANGED ustate
        ELSE /\ atasks' = Without(atasks, i)
             /\ ustate' = userReducer_SET_LOADING(ustate, FALSE)
    /\ UNCHANGED <<ucache, addresses, anops, alast>>
    /\ UNCHANGED <<cvars, pvars, ovars, hvars>>

\* getAddresses returns in syncUserWithAuth: SET_PROFILE with the profile
\* and its addresses, which are cached with the user's id
SyncAddressesResolves(i) ==
    /\ i \in DOMAIN atasks
    /\ atasks[i].pc = "fetch"
    /\ \E ok \in BOOLEAN :
        LET t == atasks[i]
            fetched == getAddresses(addresses, t.profileId, ok)
            userProfile == UserProfile(t.profileId, NoPhone, ToLocal(fetched))
        IN /\ ustate' = userReducer_SET_PROFILE(ustate, userProfile)
           /\ ucache' = [ucache EXCEPT !.userProfile = StoredProfile(userProfile),
                                       !.userId = t.uid]
           /\ atasks' = Without(atasks, i)
    /\ UNCHANGED <<addresses, anops, alast>>
    /\ UNCHANGED <<cvars, pvars, ovars, hvars>>

SessionSlots == 1 .. MaxSessionChanges

NextSession ==
    \/ \E u \in Users : SessionSignedIn(u)
    \/ SessionSignedOut
    \/ \E i \in SessionSlots : SyncProfileResolves(i)
    \/ \E i \in SessionSlots : SyncAddressesResolves(i)
    \/ \E i \in SessionSlots : GetCartResolves(i)
    \/ \E i \in SessionSlots : SelectResolves(i)
    \/ \E i \in SessionSlots : WriteResolves(i)
    \/ \E i \in SessionSlots : GetOrdersResolves(i)
    \/ \E i \in SessionSlots : OrderProfileResolves(i)
    \/ \E i \in SessionSlots : FallbackResolves(i)

SpecSession == InitSession /\ [][NextSession]_vars

NothingInFlight == tasks = <<>> /\ atasks = <<>> /\ otasks = <<>>

\* C23: when the session changes to signed-out with no operation in
\* flight, the sign-out handling leaves the guest default profile, no
\* orders, and no value under the profile, phone, identity and orders keys.
C23_SignOutClearsEverything ==
    [][(user # NoUser /\ user' = NoUser /\ NothingInFlight) =>
            /\ ustate'.profile = defaultProfile
            /\ ostate'.orders = <<>>
            /\ ostate'.activeOrders = <<>>
            /\ ostate'.orderHistory = <<>>
            /\ ucache'.userProfile = NoValue
            /\ ucache'.userPhone = NoPhone
            /\ ucache'.userId = NoUser
            /\ ocache' = NoValue
      ]_vars

\* C24: on logout the local cart is emptied and the remote cart of the
\* identity that signed out is left as it was.
C24_LogoutEmptiesLocalCart ==
    [][(user # NoUser /\ user' = NoUser) =>
            /\ state'.items = <<>>
            /\ remote' = remote
      ]_vars

\* C28: once the session is signed-out and every operation started before
\* has finished, the profile is the guest default and the cache holds no
\* identity key and no profile snapshot.
C28_SignedOutStaysCleared ==
    (authLast.op = "signedOut" /\ NothingInFlight) =>
        /\ ustate.profile = defaultProfile
        /\ ucache.userId = NoUser
        /\ ucache.userProfile = NoValue

(* ============== the totals of a guest's cart, step by step ============= *)
MaxCartSteps == 3      \* addItem and updateQuantity calls in one behaviour
MaxQty == 2            \* largest quantity of one payload

\* a guest on a fresh install, the mount effect done: the empty cart
InitTotals ==
    /\ ProfilesIdle
    /\ AuthIdle
    /\ AddressesIdle
    /\ OrdersIdle
    /\ state = initialState
    /\ user = NoUser
    /\ remote = [u \in Users |-> NoRow]
    /\ cache = NoValue
    /\ tasks = <<>>
    /\ nops = 0
    /\ last = Step(MountTask, "call", FALSE, FALSE, FALSE)

\* addItem(item): ADD_ITEM, and the save effect
GuestAddItem(id, quantity) ==
    /\ nops < MaxCartSteps
    /\ state' = reduce_ADD_ITEM(state, CartItem(id, quantity))
    /\ cache' = saveEffect(cache, state'.items)
    /\ nops' = nops + 1
    /\ last' = Step(NewTask("addItem", "done", id, quantity, NoUser, state, TRUE),
                    "call", TRUE, FALSE, FALSE)
    /\ UNCHANGED <<user, remote, tasks>>
    /\ UNCHANGED <<pvars, avars, ovars, hvars>>

\* updateQuantity(id, quantity) of a guest: UPDATE_QUANTITY and the save
\* effect; getUser() finds nobody and nothing is pushed
GuestUpdateQuantity(id, quantity) ==
    /\ nops < MaxCartSteps
    /\ user = NoUser
    /\ state' = reduce_UPDATE_QUANTITY(state, id, quantity)
    /\ cache' = saveEffect(cache, state'.items)
    /\ nops' = nops + 1
    /\ last' = Step(NewTask("updateQuantity", "done", id, quantity, NoUser, state,
                            TRUE), "call", TRUE, FALSE, FALSE)
    /\ UNCHANGED <<user, remote, tasks>>
    /\ UNCHANGED <<pvars, avars, ovars, hvars>>

NextTotals ==
    \/ \E id \in Ids, quantity \in 1 .. MaxQty : GuestAddItem(id, quantity)
    \/ \E id \in Ids, quantity \in 0 .. MaxQty : GuestUpdateQuantity(id, quantity)

SpecCartTotals == InitTotals /\ [][NextTotals]_vars

\* the cart holds item A with quantity 2 and item B with quantity 1
CartOfTheScenario ==
    /\ Len(state.items) = 2
    /\ {<<state.items[k].id, state.items[k].quantity>> : k \in DOMAIN state.items}
          = {<<"A", 2>>, <<"B", 1>>}

\* C25: a cart of A (quantity 2, price 500) and B (quantity 1, price 1000),
\* however addItem and updateQuantity led to it, has subtotal 2000,
\* deliveryFee 0, tax 300 and total 2300.
C25_ScenarioTotals ==
    CartOfTheScenario =>
        /\ state.subtotal = 2000
        /\ state.deliveryFee = 0
        /\ state.tax = 300
        /\ state.total = 2300

(* ========= properties of the cart: cache, failed read, merge =========== *)
\* removeItem or updateQuantity has ended, alone, and the cart is empty
C26_LastItemRemoved ==
    /\ last.fin
    /\ last.t.op \in {"removeItem", "updateQuantity"}
    /\ last.t.clean
    /\ Len(last.t.pre.items) > 0
    /\ state.items = <<>>
    /\ tasks = <<>>

\* C26: once removeItem or updateQuantity(id, 0) has removed the last item
\* and the saves are done, the cache holds no items, so that loadCart after
\* a restart yields an empty cart.
C26_CacheMirrorsEmptyCart ==
    C26_LastItemRemoved => (cache.present => JSONparse(cache.text) = <<>>)

\* C27: when the read of the remote cart fails during mergeAndSyncCart, the
\* merge removes no item from the remote cart: what the remote cart held
\* before the write of the merge it holds after it.
C27_FailedReadLeavesRemote ==
    [][\A i \in DOMAIN tasks :
          (tasks[i].op = "loadCartFromServer" /\ tasks[i].pc = "write"
           /\ ~tasks[i].readOk /\ Len(tasks') < Len(tasks))
              => IdsOf(remote[tasks[i].uid].cart_items) \subseteq
                    IdsOf(remote'[tasks[i].uid].cart_items)
      ]_vars

\* C29: when the result of the merge replaces the local cart, an item
\* added while the merge was awaited is still in the cart, and an item
\* removed meanwhile is still absent.
C29_MergeKeepsLocalMutations ==
    [][\A i \in DOMAIN tasks :
          (tasks[i].op = "loadCartFromServer" /\ tasks[i].pc = "write"
           /\ Len(tasks') < Len(tasks))
              => /\ IdsOf(state.items) \subseteq IdsOf(state'.items)
                 /\ IdsOf(state'.items) \subseteq
                        IdsOf(state.items) \cup IdsOf(tasks[i].server)
      ]_vars

====
